---- MODULE Spec2Model ----
(***************************************************************************)
(* Histogram query engine of Kiteapp: the 1D histogram repository          *)
(* (backend/data/histogram_repository.py), the spot repository             *)
(* (backend/data/spot_repository.py) and the spot service                  *)
(* (backend/services/spot_service.py).                                     *)
(*                                                                         *)
(* Numbers.  Counts are naturals (the float32 volume holds whole counts    *)
(* far below 2^24, so its sums are exact).  A percentage is the exact      *)
(* rational [n, d] standing for n / d; comparisons cross-multiply.         *)
(* A "MM-DD" string is the tuple of its four digits (the dash sits at the  *)
(* same position in every string) and strings compare lexicographically.   *)
(***************************************************************************)
EXTENDS Integers, Sequences, FiniteSets, TLC

\* ------------------------------------------------------------------------
\* Bounds of the model
\* ------------------------------------------------------------------------
\* number of observations spread over the varying part of a volume file
MaxObs == 2
\* number of observations spread over the varying part of the volume file
\* that filter_spots reads
MaxFilterObs == 1
\* capacity of the filter result cache (512 in the source), scaled down so
\* that a handful of distinct argument tuples fills it
FilterCacheMax == 2

\* ------------------------------------------------------------------------
\* Values
\* ------------------------------------------------------------------------
\* Python None (also an absent file); an empty list is <<>> as well
None == <<>>
\* float NaN: the quotient 0 / 0
NaN == [n |-> 0, d |-> 0]
\* float("inf"): above every wind speed of the model
Inf == 1000

\* "MM-DD" strings
D0101 == <<0, 1, 0, 1>>
D0615 == <<0, 6, 1, 5>>
D1231 == <<1, 2, 3, 1>>

\* Python str comparison: lexicographic on the characters
StrLt(a, b) ==
  \E i \in 1..Len(a) : /\ i <= Len(b)
                       /\ a[i] < b[i]
                       /\ \A j \in 1..(i - 1) : a[j] = b[j]
StrLe(a, b) == a = b \/ StrLt(a, b)

\* a Python list / NumPy axis: a function on 0 .. n-1
Arr(seq) == [i \in 0..(Len(seq) - 1) |-> seq[i + 1]]
ALen(a) == Cardinality(DOMAIN a)

RECURSIVE SetSum(_, _)
\* sum of f[x] over the finite set S of indices
SetSum(f, S) ==
  IF S = {} THEN 0
  ELSE LET x == CHOOSE y \in S : TRUE IN f[x] + SetSum(f, S \ {x})

\* ------------------------------------------------------------------------
\* The persisted files (read-only inputs of the serving core)
\* ------------------------------------------------------------------------
\* data["days"], data["bins"], data["spot_ids"] of the 1D histogram file
FileDays == Arr(<<D0101, D0615, D1231>>)
FileBins == Arr(<<0, 5, 10, Inf>>)
FileSpotIds == Arr(<<"s2", "s1", "hx">>)

NumFileDays == ALen(FileDays)
NumFileBins == ALen(FileBins) - 1

ZeroRow == [b \in 0..(NumFileBins - 1) |-> 0]
ZeroSpot == [d \in 0..(NumFileDays - 1) |-> ZeroRow]

\* the fixed part of the volume: one spot with observations on two days,
\* the other spots without any observation
BaseVolume ==
  Arr(<< ZeroSpot,
         Arr(<< Arr(<<2, 3, 5>>), ZeroRow, Arr(<<1, 0, 1>>) >>),
         ZeroSpot >>)

\* the spots (axis-0 indices) whose counts vary
VarSpots == {0}

AddObs(v, s, d, b) == [v EXCEPT ![s][d][b] = @ + 1]

RECURSIVE VolumesUpTo(_)
\* BaseVolume plus at most n further observations
VolumesUpTo(n) ==
  IF n = 0 THEN {BaseVolume}
  ELSE LET prev == VolumesUpTo(n - 1)
       IN prev \cup { AddObs(v, s, d, b) :
                        v \in prev, s \in VarSpots,
                        d \in 0..(NumFileDays - 1), b \in 0..(NumFileBins - 1) }

NoFile == None

HistFile(v) == [data |-> v, spot_ids |-> FileSpotIds,
                bins |-> FileBins, days |-> FileDays]

\* ------------------------------------------------------------------------
\* State
\* ------------------------------------------------------------------------
VARIABLES
  histFile,          \* the 1D histogram file on disk: NoFile or its record
  sustFile,          \* the sustained-wind volume on disk: NoFile or its record
  hist2dDir,         \* histograms_2d_dir: spot id -> content of its .pkl file
  cache_2d,          \* HistogramRepository._cache_2d: spot id -> loaded file
  threads,           \* the filter_spots calls in flight on the shared service
  hist,              \* HistogramRepository: _1d_loaded, _1d_data, _1d_spot_ids,
                     \* _1d_spot_to_idx, _1d_bins, _1d_days, _1d_day_to_idx,
                     \* _1d_prefix
  spots,             \* SpotRepository: _loaded and the parallel arrays
  day_mask_cache,    \* lru_cache of _get_day_mask_cached
  bin_mask_cache,    \* lru_cache of _get_bin_mask_cached
  day_range_cache,   \* lru_cache of _get_day_range_cached
  filter_cache,      \* SpotService._filter_cache, in insertion order
  argsort_ties,      \* how np.argsort (kind="quicksort", not stable) orders
                     \* equal keys in this build
  req,               \* arguments of the query being served
  result,            \* what the last operation returned
  accum_1d,          \* HistogramBuilder._accum_1d: spot id -> day -> counts
  accumulated,       \* the chunks handed to HistogramBuilder.accumulate so far
  checkpoint_file,   \* CHECKPOINT_FILE on disk: <<>> or the saved state
  ts_store,          \* TimeseriesStore: spot id -> the chunks appended to its file
  run                \* the run of run_phase1_arco in progress, if any

vars == <<histFile, sustFile, hist2dDir, cache_2d, threads, hist, spots,
          day_mask_cache, bin_mask_cache, day_range_cache, filter_cache,
          argsort_ties, req, result, accum_1d, accumulated, checkpoint_file,
          ts_store, run>>

environment == <<histFile, sustFile, hist2dDir, argsort_ties>>

\* The state of the data_pipelines package, which the backend never touches.
pipelines == <<accum_1d, accumulated, checkpoint_file, ts_store, run>>

\* No pipeline has run: HistogramBuilder.__init__, no checkpoint, an empty store.
PipelinesInit ==
  /\ accum_1d = <<>>
  /\ accumulated = <<>>
  /\ checkpoint_file = <<>>
  /\ ts_store = <<>>
  /\ run = [pc |-> "stopped"]

\* HistogramRepository.__init__
HistInit ==
  [loaded_1d |-> FALSE, data_1d |-> None, spot_ids_1d |-> <<>>,
   spot_to_idx_1d |-> <<>>, bins_1d |-> <<>>, days_1d |-> <<>>,
   day_to_idx_1d |-> <<>>, prefix_1d |-> None]

\* {x: idx for idx, x in enumerate(lst)}: a later duplicate overwrites
IndexMap(lst) ==
  [x \in {lst[i] : i \in DOMAIN lst} |->
     CHOOSE i \in DOMAIN lst :
       lst[i] = x /\ \A j \in DOMAIN lst : lst[j] = x => j <= i]

RECURSIVE CumSumAt(_, _, _)
\* np.cumsum along the day axis: the running total of column b after the
\* first k days of one spot
CumSumAt(spot, k, b) ==
  IF k = 0 THEN 0 ELSE CumSumAt(spot, k - 1, b) + spot[k - 1][b]

\* _1d_prefix: zeros of shape (spots, days + 1, bins) with the cumulative
\* sums written into [:, 1:, :]
BuildPrefix(data) ==
  [s \in DOMAIN data |->
    [k \in 0..ALen(data[s]) |->
      [b \in DOMAIN data[s][0] |->
         IF k = 0 THEN 0 ELSE CumSumAt(data[s], k, b)]]]

\* HistogramRepository._load_1d_data: the repository after the call
Load1dData(h, file) ==
  IF h.loaded_1d THEN h
  ELSE IF file = NoFile THEN [h EXCEPT !.loaded_1d = TRUE]
  ELSE [loaded_1d |-> TRUE,
        data_1d |-> file.data,
        spot_ids_1d |-> file.spot_ids,
        spot_to_idx_1d |-> IndexMap(file.spot_ids),
        bins_1d |-> file.bins,
        days_1d |-> file.days,
        day_to_idx_1d |-> IndexMap(file.days),
        prefix_1d |-> BuildPrefix(file.data)]

\* ------------------------------------------------------------------------
\* HistogramRepository: masks, day range, range sums
\* ------------------------------------------------------------------------
\* _get_day_mask_cached: boolean mask over _1d_days
DayMask(h, start_date, end_date) ==
  [i \in DOMAIN h.days_1d |->
     IF StrLe(start_date, end_date)
     THEN StrLe(start_date, h.days_1d[i]) /\ StrLe(h.days_1d[i], end_date)
     ELSE StrLe(start_date, h.days_1d[i]) \/ StrLe(h.days_1d[i], end_date)]

\* BinMask with containment in place of overlap
BinMask_Contained(h, wind_min, wind_max) ==
  [i \in 0..(ALen(h.bins_1d) - 2) |->
     h.bins_1d[i] >= wind_min /\ h.bins_1d[i + 1] <= wind_max]

\* _get_bin_mask_cached: bin i is selected when it overlaps the range
BinMask(h, wind_min, wind_max) ==
  [i \in 0..(ALen(h.bins_1d) - 2) |->
     h.bins_1d[i] < wind_max /\ h.bins_1d[i + 1] > wind_min]

\* dict.get(key, default)
DictGet(d, key, default) == IF key \in DOMAIN d THEN d[key] ELSE default

\* DayRange that never reports a wrap
DayRange_NoWrap(h, start_date, end_date) ==
  [start_idx |-> DictGet(h.day_to_idx_1d, start_date, 0),
   end_idx |-> DictGet(h.day_to_idx_1d, end_date, ALen(h.days_1d) - 1),
   wraps |-> FALSE]

\* _get_day_range_cached: (start_idx, end_idx, wraps)
DayRange(h, start_date, end_date) ==
  [start_idx |-> DictGet(h.day_to_idx_1d, start_date, 0),
   end_idx |-> DictGet(h.day_to_idx_1d, end_date, ALen(h.days_1d) - 1),
   wraps |-> StrLt(end_date, start_date)]

\* functools.lru_cache: the stored value on a hit, the computed one on a
\* miss.  The keys of the model stay far below maxsize, nothing is evicted.
LruGet(cache, key, computed) == IF key \in DOMAIN cache THEN cache[key] ELSE computed
\* a memo of one entry: storing a new key drops the entries before it
LruPut_SingleEntry(cache, key, computed) ==
  IF key \in DOMAIN cache THEN cache
  ELSE [k \in {key} |-> computed]
LruPut(cache, key, computed) ==
  IF key \in DOMAIN cache THEN cache
  ELSE [k \in DOMAIN cache \cup {key} |-> IF k = key THEN computed ELSE cache[k]]

\* RangeSums whose contiguous branch leaves out the end day
RangeSums_EndExclusive(h, r) ==
  IF h.data_1d = None THEN None
  ELSE [s \in DOMAIN h.data_1d |->
         [b \in DOMAIN h.data_1d[s][0] |->
            IF ~r.wraps
            THEN h.prefix_1d[s][r.end_idx][b] - h.prefix_1d[s][r.start_idx][b]
            ELSE (h.prefix_1d[s][ALen(h.data_1d[s])][b] - h.prefix_1d[s][r.start_idx][b])
                 + h.prefix_1d[s][r.end_idx + 1][b]]]

\* RangeSums whose wrap-around branch counts the start day twice
RangeSums_WrapFromStart(h, r) ==
  IF h.data_1d = None THEN None
  ELSE [s \in DOMAIN h.data_1d |->
         [b \in DOMAIN h.data_1d[s][0] |->
            IF ~r.wraps
            THEN h.prefix_1d[s][r.end_idx + 1][b] - h.prefix_1d[s][r.start_idx][b]
            ELSE (h.prefix_1d[s][ALen(h.data_1d[s])][b] - h.prefix_1d[s][r.start_idx][b])
                 + h.prefix_1d[s][r.start_idx + 1][b]]]

\* get_range_sums after _load_1d_data, given the (start_idx, end_idx, wraps)
\* that get_day_range_indices returned
RangeSums(h, r) ==
  IF h.data_1d = None THEN None
  ELSE [s \in DOMAIN h.data_1d |->
         [b \in DOMAIN h.data_1d[s][0] |->
            IF ~r.wraps
            THEN h.prefix_1d[s][r.end_idx + 1][b] - h.prefix_1d[s][r.start_idx][b]
            ELSE (h.prefix_1d[s][ALen(h.data_1d[s])][b] - h.prefix_1d[s][r.start_idx][b])
                 + h.prefix_1d[s][r.end_idx + 1][b]]]

\* ------------------------------------------------------------------------
\* SpotService: percentages
\* ------------------------------------------------------------------------
Pct(n, d) == [n |-> n, d |-> d]
PctEq(p, q) == p.n * q.d = q.n * p.d
PctLe(p, q) == p.n * q.d <= q.n * p.d

\* the indices an np boolean mask selects
Selected(mask) == {i \in DOMAIN mask : mask[i]}

\* filtered[...].sum() of one spot: the counts of the selected days and bins
MaskedSum(spot_data, days, bins) ==
  SetSum([d \in days |-> SetSum(spot_data[d], bins)], days)

\* KiteablePercentage that answers 0 for a range without observations
KiteablePercentage_ZeroForNoData(h, spot_id, day_mask, bin_mask) ==
  IF h.data_1d = None THEN None
  ELSE IF spot_id \notin DOMAIN h.spot_to_idx_1d THEN None
  ELSE LET spot_data == h.data_1d[h.spot_to_idx_1d[spot_id]]
           total == MaskedSum(spot_data, Selected(day_mask), DOMAIN spot_data[0])
           in_range == MaskedSum(spot_data, Selected(day_mask), Selected(bin_mask))
       IN IF total = 0 THEN Pct(0, 1) ELSE Pct(in_range * 100, total)

\* calculate_kiteable_percentage after the repository is loaded, given the
\* day mask and the bin mask the repository returned
KiteablePercentage(h, spot_id, day_mask, bin_mask) ==
  IF h.data_1d = None THEN None
  ELSE IF spot_id \notin DOMAIN h.spot_to_idx_1d THEN None
  ELSE LET spot_data == h.data_1d[h.spot_to_idx_1d[spot_id]]
           total == MaskedSum(spot_data, Selected(day_mask), DOMAIN spot_data[0])
           in_range == MaskedSum(spot_data, Selected(day_mask), Selected(bin_mask))
       IN IF total = 0 THEN None ELSE Pct(in_range * 100, total)

\* _calculate_all_percentages_array, given range_sums and the bin mask
AllPercentagesArray(h, range_sums, bin_mask) ==
  IF range_sums = None THEN None
  ELSE IF ALen(h.spot_ids_1d) = 0 THEN None
  ELSE [s \in DOMAIN range_sums |->
         LET totals == SetSum(range_sums[s], DOMAIN range_sums[s])
             in_range == SetSum(range_sums[s], Selected(bin_mask))
         IN IF totals > 0 THEN Pct(in_range * 100, totals) ELSE Pct(0, 1)]

\* ------------------------------------------------------------------------
\* SpotRepository
\* ------------------------------------------------------------------------
\* a Python str that is tested for emptiness or searched is the tuple of its
\* characters; None and "" are both <<>>, and both are falsy
NL == <<"N", "L">>
ES == <<"E", "S">>

\* the spot table file: one row per spot (latitude and longitude are
\* copied through to the result unchanged and are left out)
SpotsFile ==
  Arr(<< [spot_id |-> "s1", name |-> <<"B", "a">>, country |-> NL],
         [spot_id |-> "s2", name |-> <<"b", "b">>, country |-> ES],
         [spot_id |-> "s3", name |-> <<"A", "b">>, country |-> NL] >>)

\* SpotRepository.__init__
SpotsInit ==
  [loaded |-> FALSE, df |-> None, country_index |-> <<>>, spot_ids |-> None,
   names |-> None, countries |-> None, spot_id_to_idx |-> <<>>,
   names_lower |-> None]

\* str.lower on one character
LowerChar(c) == CASE c = "A" -> "a" [] c = "B" -> "b" [] OTHER -> c
\* str.lower
Lower(str) == [i \in DOMAIN str |-> LowerChar(str[i])]

\* needle in haystack
Contains(haystack, needle) ==
  \E i \in 0..(Len(haystack) - Len(needle)) :
     SubSeq(haystack, i + 1, i + Len(needle)) = needle

RECURSIVE CountryIndex(_, _, _)
\* the loop over df.iterrows() that appends each row index to the list of
\* its country, continued from row k on the index built so far
CountryIndex(df, k, index) ==
  IF k = ALen(df) THEN index
  ELSE LET c == df[k].country
           old == IF c \in DOMAIN index THEN index[c] ELSE <<>>
       IN CountryIndex(df, k + 1,
            [x \in DOMAIN index \cup {c} |-> IF x = c THEN Append(old, k) ELSE index[x]])

\* SpotRepository._load: the repository after the call
SpotsLoad(sp) ==
  IF sp.loaded THEN sp
  ELSE [loaded |-> TRUE,
        df |-> SpotsFile,
        country_index |-> CountryIndex(SpotsFile, 0, sp.country_index),
        spot_ids |-> [i \in DOMAIN SpotsFile |-> SpotsFile[i].spot_id],
        names |-> [i \in DOMAIN SpotsFile |-> SpotsFile[i].name],
        countries |-> [i \in DOMAIN SpotsFile |-> SpotsFile[i].country],
        spot_id_to_idx |-> IndexMap([i \in DOMAIN SpotsFile |-> SpotsFile[i].spot_id]),
        names_lower |-> [i \in DOMAIN SpotsFile |-> Lower(SpotsFile[i].name)]]

\* SpotRepository.get_country_mask
CountryMask(sp, country) == [i \in DOMAIN sp.countries |-> sp.countries[i] = country]

\* SpotRepository.get_name_mask
NameMask(sp, name) ==
  [i \in DOMAIN sp.names_lower |-> Contains(sp.names_lower[i], Lower(name))]

\* ------------------------------------------------------------------------
\* Sustained-wind volume of the repository
\* ------------------------------------------------------------------------
\* HistogramRepository.get_sustained_data
GetSustainedData == IF sustFile = NoFile THEN None ELSE sustFile.data

\* HistogramRepository.get_sustained_spot_ids
GetSustainedSpotIds == IF sustFile = NoFile THEN <<>> ELSE sustFile.spot_ids

\* HistogramRepository._sustained_spot_to_idx
SustainedSpotToIdx == IF sustFile = NoFile THEN <<>> ELSE IndexMap(sustFile.spot_ids)

\* HistogramRepository.get_sustained_bin_index: the first bin whose low edge
\* is at or above the threshold (the number of bins when there is none)
GetSustainedBinIndex(wind_threshold) ==
  LET bins == sustFile.bins
      num_bins == ALen(bins) - 1
      at_or_above == {i \in 0..(num_bins - 1) : bins[i] >= wind_threshold}
  IN IF at_or_above = {} THEN num_bins
     ELSE CHOOSE i \in at_or_above : \A j \in at_or_above : i <= j

\* the sum taken over the bins up to bin_idx instead of from bin_idx on
SustainedPercentagesArray_UpToThreshold(day_mask, wind_threshold) ==
  IF GetSustainedData = None THEN None
  ELSE IF ALen(GetSustainedSpotIds) = 0 THEN None
  ELSE LET data == GetSustainedData
           bin_idx == GetSustainedBinIndex(wind_threshold)
           days == Selected(day_mask)
       IN [s \in DOMAIN data |->
            IF days = {} THEN NaN
            ELSE Pct(MaskedSum(data[s], days,
                               {b \in DOMAIN data[s][0] : b <= bin_idx}),
                     Cardinality(days))]
\* SpotService._calculate_sustained_percentages_array, given the day mask:
\* per spot the mean over the selected days of the sum of the bins from
\* bin_idx on, NaN for the mean of no day
SustainedPercentagesArray(day_mask, wind_threshold) ==
  IF GetSustainedData = None THEN None
  ELSE IF ALen(GetSustainedSpotIds) = 0 THEN None
  ELSE LET data == GetSustainedData
           bin_idx == GetSustainedBinIndex(wind_threshold)
           days == Selected(day_mask)
       IN [s \in DOMAIN data |->
            IF days = {} THEN NaN
            ELSE Pct(MaskedSum(data[s], days,
                               {b \in DOMAIN data[s][0] : b >= bin_idx}),
                     Cardinality(days))]

\* ------------------------------------------------------------------------
\* SpotService.filter_spots
\* ------------------------------------------------------------------------
\* a >= b for a percentage a (NaN compares false) and a number b
PctGe(a, b) == a # NaN /\ a.n >= b * a.d

\* round(float(p), 1) in tenths: round half to even
Round1(p) ==
  LET q == (10 * p.n) \div p.d
      r == (10 * p.n) % p.d
  IN IF 2 * r < p.d THEN q
     ELSE IF 2 * r > p.d THEN q + 1
     ELSE IF q % 2 = 0 THEN q ELSE q + 1

\* the array filled from a per-volume array through the two id -> index maps,
\* zero where no id of the volume maps to the index
MapToSpotOrder(sp, id_to_idx, values) ==
  [i \in DOMAIN sp.spot_ids |->
     IF \E sid \in DOMAIN id_to_idx :
          sid \in DOMAIN sp.spot_id_to_idx /\ sp.spot_id_to_idx[sid] = i
     THEN values[id_to_idx[CHOOSE sid \in DOMAIN id_to_idx :
                    sid \in DOMAIN sp.spot_id_to_idx /\ sp.spot_id_to_idx[sid] = i]]
     ELSE Pct(0, 1)]

\* First for a sort in ascending order
First_Smallest(pct_array, S, ties) ==
  CHOOSE i \in S : \A j \in S \ {i} :
     \/ ~PctLe(pct_array[j], pct_array[i])
     \/ /\ PctEq(pct_array[i], pct_array[j])
        /\ IF ties = "ascending" THEN i < j ELSE i > j

\* the index np.argsort(-pct_array[passing_idx]) puts first among the
\* indices of S: a largest percentage, ties in the order of this build
First(pct_array, S, ties) ==
  CHOOSE i \in S : \A j \in S \ {i} :
     \/ ~PctLe(pct_array[i], pct_array[j])
     \/ /\ PctEq(pct_array[i], pct_array[j])
        /\ IF ties = "ascending" THEN i < j ELSE i > j

RECURSIVE ArgsortDesc(_, _, _)
\* passing_idx[np.argsort(-pct_array[passing_idx])]
ArgsortDesc(pct_array, S, ties) ==
  IF S = {} THEN <<>>
  ELSE LET i == First(pct_array, S, ties)
       IN <<i>> \o ArgsortDesc(pct_array, S \ {i}, ties)

\* SpotWithStats
SpotWithStats(sp, pct_array, i) ==
  [spot_id |-> sp.spot_ids[i], name |-> sp.names[i], country |-> sp.countries[i],
   kiteable_percentage |-> Round1(pct_array[i])]

\* the mask with an unavailable sustained array treated as an array of zeros
PassingIdx_UnavailableAsZero(h, sp, percentages, sustained_pct, a) ==
  LET pct_array == MapToSpotOrder(sp, h.spot_to_idx_1d, percentages)
      sust_array == MapToSpotOrder(sp, SustainedSpotToIdx, sustained_pct)
  IN {i \in DOMAIN sp.spot_ids :
        /\ PctGe(pct_array[i], a.min_percentage)
        /\ a.country # <<>> => CountryMask(sp, a.country)[i]
        /\ a.name # <<>> => NameMask(sp, a.name)[i]
        /\ a.sustained_wind_min > 0
             => /\ sustained_pct # None
                /\ PctGe(sust_array[i], a.sustained_wind_days_min)}
\* the combined mask of _filter_spots_uncached; sustained_pct is None when
\* the sustained filter is not applied
PassingIdx(h, sp, percentages, sustained_pct, a) ==
  LET pct_array == MapToSpotOrder(sp, h.spot_to_idx_1d, percentages)
      sust_array == MapToSpotOrder(sp, SustainedSpotToIdx, sustained_pct)
  IN {i \in DOMAIN sp.spot_ids :
        /\ PctGe(pct_array[i], a.min_percentage)
        /\ a.country # <<>> => CountryMask(sp, a.country)[i]
        /\ a.name # <<>> => NameMask(sp, a.name)[i]
        /\ (a.sustained_wind_min > 0 /\ sustained_pct # None)
             => PctGe(sust_array[i], a.sustained_wind_days_min)}

\* _filter_spots_uncached without the "if percentages is None" return
FilterSpotsUncached_NoAbsenceCheck(h, sp, percentages, sustained_pct, a, ties) ==
  LET pct_array == MapToSpotOrder(sp, h.spot_to_idx_1d, percentages)
      result_idx == ArgsortDesc(pct_array,
                      PassingIdx(h, sp, percentages, sustained_pct, a), ties)
  IN [k \in 1..Len(result_idx) |-> SpotWithStats(sp, pct_array, result_idx[k])]
\* _filter_spots_uncached, given the loaded repositories and the arrays the
\* two percentage computations returned
FilterSpotsUncached(h, sp, percentages, sustained_pct, a, ties) ==
  IF percentages = None THEN <<>>
  ELSE LET pct_array == MapToSpotOrder(sp, h.spot_to_idx_1d, percentages)
           result_idx == ArgsortDesc(pct_array,
                           PassingIdx(h, sp, percentages, sustained_pct, a), ties)
       IN [k \in 1..Len(result_idx) |-> SpotWithStats(sp, pct_array, result_idx[k])]

\* the arguments after "if wind_max >= 100: wind_max = float('inf')"
WithInfinity(a) == [a EXCEPT !.wind_max = IF @ >= 100 THEN Inf ELSE @]

\* cache_key of an argument record that left out min_percentage
CacheKey_NoMinPercentage(a) ==
  <<a.wind_min, a.wind_max, a.start_date, a.end_date, a.country, a.name,
    a.sustained_wind_min, a.sustained_wind_days_min>>

\* cache_key: the tuple of all nine arguments
CacheKey(a) ==
  <<a.wind_min, a.wind_max, a.start_date, a.end_date, a.country, a.name,
    a.min_percentage, a.sustained_wind_min, a.sustained_wind_days_min>>

CacheHas(cache, key) == \E i \in 1..Len(cache) : cache[i].key = key
CacheGet(cache, key) == cache[CHOOSE i \in 1..Len(cache) : cache[i].key = key].value

\* store in the cache: at the capacity the newest entry goes first
CacheStore_EvictNewest(cache, key, value) ==
  Append(IF Len(cache) >= FilterCacheMax THEN SubSeq(cache, 1, Len(cache) - 1) ELSE cache,
         [key |-> key, value |-> value])
\* store in the cache: at the capacity the oldest entry goes first
CacheStore(cache, key, value) ==
  Append(IF Len(cache) >= FilterCacheMax THEN Tail(cache) ELSE cache,
         [key |-> key, value |-> value])

\* SpotService.filter_spots(wind_min, ..., sustained_wind_days_min)
FilterSpots(args) ==
  LET a == WithInfinity(args)
      key == CacheKey(a)
      h == Load1dData(hist, histFile)
      rkey == <<a.start_date, a.end_date>>
      rcomputed == DayRange(h, a.start_date, a.end_date)
      range_sums == RangeSums(h, LruGet(day_range_cache, rkey, rcomputed))
      bkey == <<a.wind_min, a.wind_max>>
      bcomputed == BinMask(h, a.wind_min, a.wind_max)
      percentages == AllPercentagesArray(h, range_sums,
                                         LruGet(bin_mask_cache, bkey, bcomputed))
      bin_mask_used == range_sums # None /\ ALen(h.spot_ids_1d) # 0
      sp == SpotsLoad(spots)
      day_mask_used == /\ percentages # None
                       /\ a.sustained_wind_min > 0
                       /\ GetSustainedData # None
                       /\ ALen(GetSustainedSpotIds) # 0
      mcomputed == DayMask(h, a.start_date, a.end_date)
      sustained_pct ==
        IF percentages # None /\ a.sustained_wind_min > 0
        THEN SustainedPercentagesArray(LruGet(day_mask_cache, rkey, mcomputed),
                                       a.sustained_wind_min)
        ELSE None
      value == FilterSpotsUncached(h, sp, percentages, sustained_pct, a, argsort_ties)
  IN IF CacheHas(filter_cache, key)
     THEN /\ result' = [op |-> "filter_spots", args |-> args, hit |-> TRUE,
                        value |-> CacheGet(filter_cache, key)]
          /\ UNCHANGED <<pipelines, environment, cache_2d, threads, hist, spots, day_mask_cache, bin_mask_cache,
                         day_range_cache, filter_cache, req>>
     ELSE /\ hist' = h
          /\ day_range_cache' = IF range_sums = None THEN day_range_cache
                                ELSE LruPut(day_range_cache, rkey, rcomputed)
          /\ bin_mask_cache' = IF bin_mask_used THEN LruPut(bin_mask_cache, bkey, bcomputed)
                               ELSE bin_mask_cache
          /\ spots' = IF percentages = None THEN spots ELSE sp
          /\ day_mask_cache' = IF day_mask_used THEN LruPut(day_mask_cache, rkey, mcomputed)
                               ELSE day_mask_cache
          /\ filter_cache' = CacheStore(filter_cache, key, value)
          /\ result' = [op |-> "filter_spots", args |-> args, hit |-> FALSE,
                        value |-> value]
          /\ UNCHANGED <<pipelines, environment, cache_2d, threads, req>>

\* ------------------------------------------------------------------------
\* Operations of the repository and of the percentage engine, applied to
\* the arguments held in req
\* ------------------------------------------------------------------------
\* HistogramRepository.preload
Preload ==
  /\ hist' = Load1dData(hist, histFile)
  /\ result' = [op |-> "preload"]
  /\ UNCHANGED <<pipelines, environment, cache_2d, threads, spots, day_mask_cache, bin_mask_cache, day_range_cache,
                 filter_cache, req>>

\* HistogramRepository.get_range_sums(start_date, end_date)
GetRangeSums ==
  LET h == Load1dData(hist, histFile)
      key == <<req.start_date, req.end_date>>
      computed == DayRange(h, req.start_date, req.end_date)
      r == LruGet(day_range_cache, key, computed)
  IN /\ hist' = h
     /\ day_range_cache' = IF h.data_1d = None THEN day_range_cache
                           ELSE LruPut(day_range_cache, key, computed)
     /\ result' = [op |-> "get_range_sums", value |-> RangeSums(h, r)]
     /\ UNCHANGED <<pipelines, environment, cache_2d, threads, spots, day_mask_cache, bin_mask_cache, filter_cache, req>>

\* SpotService.calculate_kiteable_percentage(spot_id, wind_min, wind_max,
\* start_date, end_date)
CalculateKiteablePercentage ==
  LET h == Load1dData(hist, histFile)
      reached == h.data_1d # None /\ req.spot_id \in DOMAIN h.spot_to_idx_1d
      dkey == <<req.start_date, req.end_date>>
      dcomputed == DayMask(h, req.start_date, req.end_date)
      bkey == <<req.wind_min, req.wind_max>>
      bcomputed == BinMask(h, req.wind_min, req.wind_max)
  IN /\ hist' = h
     /\ day_mask_cache' = IF reached THEN LruPut(day_mask_cache, dkey, dcomputed)
                          ELSE day_mask_cache
     /\ bin_mask_cache' = IF reached THEN LruPut(bin_mask_cache, bkey, bcomputed)
                          ELSE bin_mask_cache
     /\ result' = [op |-> "calculate_kiteable_percentage",
                   value |-> KiteablePercentage(h, req.spot_id,
                               LruGet(day_mask_cache, dkey, dcomputed),
                               LruGet(bin_mask_cache, bkey, bcomputed))]
     /\ UNCHANGED <<pipelines, environment, cache_2d, threads, spots, day_range_cache, filter_cache, req>>

\* SpotService._calculate_all_percentages_array(wind_min, wind_max,
\* start_date, end_date)
CalculateAllPercentagesArray ==
  LET h == Load1dData(hist, histFile)
      dkey == <<req.start_date, req.end_date>>
      dcomputed == DayRange(h, req.start_date, req.end_date)
      range_sums == RangeSums(h, LruGet(day_range_cache, dkey, dcomputed))
      reached == range_sums # None /\ ALen(h.spot_ids_1d) # 0
      bkey == <<req.wind_min, req.wind_max>>
      bcomputed == BinMask(h, req.wind_min, req.wind_max)
  IN /\ hist' = h
     /\ day_range_cache' = IF range_sums = None THEN day_range_cache
                           ELSE LruPut(day_range_cache, dkey, dcomputed)
     /\ bin_mask_cache' = IF reached THEN LruPut(bin_mask_cache, bkey, bcomputed)
                          ELSE bin_mask_cache
     /\ result' = [op |-> "_calculate_all_percentages_array",
                   value |-> AllPercentagesArray(h, range_sums,
                               LruGet(bin_mask_cache, bkey, bcomputed))]
     /\ UNCHANGED <<pipelines, environment, cache_2d, threads, spots, day_mask_cache, filter_cache, req>>

\* SpotService._calculate_sustained_percentages_array(wind_threshold,
\* start_date, end_date)
CalculateSustainedPercentagesArray ==
  LET reached == GetSustainedData # None /\ ALen(GetSustainedSpotIds) # 0
      h == IF reached THEN Load1dData(hist, histFile) ELSE hist
      dkey == <<req.start_date, req.end_date>>
      dcomputed == DayMask(h, req.start_date, req.end_date)
  IN /\ hist' = h
     /\ day_mask_cache' = IF reached THEN LruPut(day_mask_cache, dkey, dcomputed)
                          ELSE day_mask_cache
     /\ result' = [op |-> "_calculate_sustained_percentages_array",
                   value |-> SustainedPercentagesArray(
                               LruGet(day_mask_cache, dkey, dcomputed),
                               req.wind_threshold)]
     /\ UNCHANGED <<pipelines, environment, cache_2d, threads, spots, bin_mask_cache, day_range_cache,
                    filter_cache, req>>

\* ------------------------------------------------------------------------
\* Specification of the repository and the percentage engine: any volume
\* file, any query arguments, the operations in any order
\* ------------------------------------------------------------------------
Dates == {FileDays[i] : i \in DOMAIN FileDays}
WindRanges == {<<0, 100>>, <<5, 10>>, <<7, 12>>, <<10, 10>>}
QuerySpots == {"s1", "s2", "s3"}

Requests ==
  { [spot_id |-> sp, wind_min |-> w[1], wind_max |-> w[2],
     start_date |-> d0, end_date |-> d1] :
      sp \in QuerySpots, w \in WindRanges, d0 \in Dates, d1 \in Dates }

Init ==
  /\ histFile \in {NoFile} \cup {HistFile(v) : v \in VolumesUpTo(MaxObs)}
  /\ sustFile = NoFile
  /\ PipelinesInit
  /\ hist = HistInit
  /\ spots = SpotsInit
  /\ day_mask_cache = <<>>
  /\ bin_mask_cache = <<>>
  /\ day_range_cache = <<>>
  /\ filter_cache = <<>>
  /\ argsort_ties = "ascending"
  /\ req \in Requests
  /\ result = [op |-> "init"]
  /\ hist2dDir = <<>>
  /\ cache_2d = <<>>
  /\ threads = <<>>

Next ==
  \/ Preload
  \/ GetRangeSums
  \/ CalculateKiteablePercentage
  \/ CalculateAllPercentagesArray

Spec == Init /\ [][Next]_vars

\* ------------------------------------------------------------------------
\* Vocabulary of the properties: calendar dates as (month, day) numbers,
\* sums written out day by day over the volume of the file
\* ------------------------------------------------------------------------
DateNum(s) == (s[1] * 10 + s[2]) * 100 + s[3] * 10 + s[4]

\* position of a calendar date in the calendar of the file
CalIdx(d) == CHOOSE i \in DOMAIN FileDays : FileDays[i] = d

\* the days a date range selects
RangeDays(d0, d1) ==
  IF DateNum(d0) <= DateNum(d1)
  THEN {i \in DOMAIN FileDays :
          DateNum(d0) <= DateNum(FileDays[i]) /\ DateNum(FileDays[i]) <= DateNum(d1)}
  ELSE {i \in DOMAIN FileDays :
          DateNum(FileDays[i]) >= DateNum(d0) \/ DateNum(FileDays[i]) <= DateNum(d1)}

\* the bins a wind range overlaps
RangeBins(wmin, wmax) ==
  {b \in 0..(NumFileBins - 1) : FileBins[b] < wmax /\ FileBins[b + 1] > wmin}

RECURSIVE Sigma(_, _, _)
\* f[lo] + ... + f[hi]
Sigma(f, lo, hi) == IF lo > hi THEN 0 ELSE f[lo] + Sigma(f, lo + 1, hi)

\* count of spot s in bin b on the days of D
CountOn(v, s, b, D) ==
  Sigma([d \in DOMAIN v[s] |-> IF d \in D THEN v[s][d][b] ELSE 0], 0, ALen(v[s]) - 1)

\* count of spot s on the days of D in the bins of B
CountIn(v, s, D, B) ==
  Sigma([b \in DOMAIN v[s][0] |-> IF b \in B THEN CountOn(v, s, b, D) ELSE 0],
        0, ALen(v[s][0]) - 1)

AllBins == 0..(NumFileBins - 1)

FileHasSpot(id) ==
  histFile # NoFile /\ \E i \in DOMAIN histFile.spot_ids : histFile.spot_ids[i] = id
FileIdx(id) == CHOOSE i \in DOMAIN histFile.spot_ids : histFile.spot_ids[i] = id

\* total count of the requested spot over the requested days
ReqTotal == CountIn(histFile.data, FileIdx(req.spot_id),
                    RangeDays(req.start_date, req.end_date), AllBins)
\* count of the requested spot over the requested days in the overlapped bins
ReqInRange == CountIn(histFile.data, FileIdx(req.spot_id),
                      RangeDays(req.start_date, req.end_date),
                      RangeBins(req.wind_min, req.wind_max))

Wrapping == DateNum(req.start_date) > DateNum(req.end_date)

\* C1: for a spot of the volume and a date range with a nonzero total,
\* calculate_kiteable_percentage returns 100 * inRange / total, the sums
\* taken over the selected days (wrapping or not) and inRange over the
\* bins with low < windMax and high > windMin.
C1_KiteablePercentageIsRatio ==
  (/\ result.op = "calculate_kiteable_percentage"
   /\ FileHasSpot(req.spot_id)
   /\ ReqTotal # 0)
  => /\ result.value # None
     /\ PctEq(result.value, Pct(100 * ReqInRange, ReqTotal))

\* a wrapping range over two days with data, a partially overlapped bin
\* counted in full: 80 % of the 12 observations (bins [5,10) and [10,inf))
C1_Witness ==
  /\ result.op = "calculate_kiteable_percentage"
  /\ FileHasSpot(req.spot_id)
  /\ req.spot_id = "s1" /\ Wrapping
  /\ req.wind_min = 7 /\ req.wind_max = 12
  /\ ReqTotal = 12
  /\ result.value # None
  /\ PctEq(result.value, Pct(900, 12))

\* C2: the single-spot query returns None exactly when the volume or the
\* spot is missing or the total over the selected days is zero; otherwise
\* it returns a number between 0 and 100.
C2_NoDataExactlyOnZeroTotal ==
  result.op = "calculate_kiteable_percentage"
  => LET nodata == ~FileHasSpot(req.spot_id) \/ ReqTotal = 0
     IN /\ (result.value = None) <=> nodata
        /\ result.value # None =>
             /\ result.value.d > 0
             /\ 0 <= result.value.n
             /\ result.value.n <= 100 * result.value.d

\* the spot has a row in the volume, but no observation on the selected days
C2_Witness ==
  /\ result.op = "calculate_kiteable_percentage"
  /\ FileHasSpot(req.spot_id)
  /\ CountIn(histFile.data, FileIdx(req.spot_id), DOMAIN FileDays, AllBins) > 0
  /\ ReqTotal = 0
  /\ result.value = None

\* what the single-spot, mask-based computation returns for the spot at
\* index i of the loaded volume and the requested ranges
SingleSpotAt(i) ==
  KiteablePercentage(hist, hist.spot_ids_1d[i],
                     DayMask(hist, req.start_date, req.end_date),
                     BinMask(hist, req.wind_min, req.wind_max))

\* C3: the all-spots computation on prefix sums returns, at each spot's
\* index, the percentage the single-spot computation on the day mask
\* returns for that spot, and 0 where the spot's total over the range is 0.
C3_ArrayAgreesWithSingleSpot ==
  (result.op = "_calculate_all_percentages_array" /\ histFile # NoFile)
  => /\ result.value # None
     /\ DOMAIN result.value = DOMAIN histFile.spot_ids
     /\ \A i \in DOMAIN result.value :
          LET total == CountIn(histFile.data, i,
                               RangeDays(req.start_date, req.end_date), AllBins)
          IN /\ total = 0 => SingleSpotAt(i) = None /\ result.value[i].n = 0
             /\ total # 0 => /\ SingleSpotAt(i) # None
                             /\ PctEq(result.value[i], SingleSpotAt(i))

\* a wrapping range: one spot with 25 % (3 of 12), one spot without data
C3_Witness ==
  /\ result.op = "_calculate_all_percentages_array"
  /\ histFile # NoFile
  /\ Wrapping
  /\ req.wind_min = 5 /\ req.wind_max = 10
  /\ PctEq(result.value[1], Pct(300, 12))
  /\ SingleSpotAt(1) # None
  /\ SingleSpotAt(2) = None /\ result.value[2].n = 0

\* C4: for calendar dates d0 <= d1, get_range_sums(d0, d1)[s, b] is the sum
\* of volume[s, d, b] over idx(d0) <= d <= idx(d1); the prefix sums start
\* at 0 and consecutive prefix sums differ by the volume.
C4_PrefixRangeSumIsNaiveSum ==
  (result.op = "get_range_sums" /\ histFile # NoFile)
  => LET v == histFile.data
     IN /\ result.value # None
        /\ \A s \in DOMAIN v : \A b \in AllBins :
             /\ hist.prefix_1d[s][0][b] = 0
             /\ \A d \in DOMAIN v[s] :
                  hist.prefix_1d[s][d + 1][b] - hist.prefix_1d[s][d][b] = v[s][d][b]
             /\ ~Wrapping =>
                  result.value[s][b] =
                    Sigma([d \in DOMAIN v[s] |-> v[s][d][b]],
                          CalIdx(req.start_date), CalIdx(req.end_date))

\* a range of more than one day that does not start at the first day
C4_Witness ==
  /\ result.op = "get_range_sums"
  /\ histFile # NoFile
  /\ CalIdx(req.start_date) = 1 /\ CalIdx(req.end_date) = 2
  /\ result.value[1] = Arr(<<1, 0, 1>>)
  /\ \E b \in AllBins : result.value[0][b] > 0

LastDay == FileDays[NumFileDays - 1]
FirstDay == FileDays[0]

\* C5: for calendar dates d0 > d1, get_range_sums(d0, d1) is
\* get_range_sums(d0, last day) + get_range_sums(first day, d1): every day
\* at or after d0 or at or before d1 counted once, no other day counted.
C5_WrapIsTailPlusHead ==
  (result.op = "get_range_sums" /\ histFile # NoFile /\ Wrapping)
  => LET v == histFile.data
         tail == RangeSums(hist, DayRange(hist, req.start_date, LastDay))
         head == RangeSums(hist, DayRange(hist, FirstDay, req.end_date))
     IN /\ result.value # None
        /\ \A s \in DOMAIN v : \A b \in AllBins :
             /\ result.value[s][b] = tail[s][b] + head[s][b]
             /\ result.value[s][b] =
                  CountOn(v, s, b, RangeDays(req.start_date, req.end_date))

\* a wrapping range with observations on both sides of the year boundary
\* and a day in between that is left out
C5_Witness ==
  /\ result.op = "get_range_sums"
  /\ histFile # NoFile
  /\ Wrapping
  /\ req.start_date = D1231 /\ req.end_date = D0101
  /\ result.value[1] = Arr(<<3, 3, 6>>)
  /\ \E b \in AllBins : histFile.data[0][1][b] > 0

\* ------------------------------------------------------------------------
\* Specification of the spot filter: any volume file, the sustained-wind
\* volume present or absent, any argument combination
\* ------------------------------------------------------------------------
\* the sustained-wind volume: per spot and day-of-year the number of
\* calendar days per bin of the maximum sustained wind
SustBase ==
  Arr(<< Arr(<< Arr(<<0, 1, 1>>), Arr(<<2, 0, 0>>), Arr(<<0, 0, 2>>) >>),
         Arr(<< Arr(<<1, 1, 0>>), Arr(<<0, 0, 0>>), Arr(<<0, 2, 0>>) >>) >>)

SustFile(v) == [data |-> v, spot_ids |-> Arr(<<"s1", "s2">>),
                bins |-> FileBins, days |-> FileDays]

FilterRequests ==
  { [wind_min |-> w[1], wind_max |-> w[2], start_date |-> d[1], end_date |-> d[2],
     country |-> c, name |-> n, min_percentage |-> m,
     sustained_wind_min |-> su[1], sustained_wind_days_min |-> su[2]] :
      w \in {<<0, 100>>, <<5, 10>>},
      d \in {<<D0101, D1231>>, <<D1231, D0101>>, <<D0615, D0615>>},
      c \in {None, NL},
      n \in {None, <<"A">>},
      m \in {0, 25, 50},
      su \in {<<0, 50>>, <<5, 50>>} }

InitFilter ==
  /\ histFile \in {NoFile} \cup {HistFile(v) : v \in VolumesUpTo(MaxFilterObs)}
  /\ sustFile \in {NoFile, SustFile(SustBase)}
  /\ PipelinesInit
  /\ hist = HistInit
  /\ spots = SpotsInit
  /\ day_mask_cache = <<>>
  /\ bin_mask_cache = <<>>
  /\ day_range_cache = <<>>
  /\ filter_cache = <<>>
  /\ argsort_ties \in {"ascending", "descending"}
  /\ req \in FilterRequests
  /\ result = [op |-> "init"]
  /\ hist2dDir = <<>>
  /\ cache_2d = <<>>
  /\ threads = <<>>

NextFilter == FilterSpots(req)

SpecFilter == InitFilter /\ [][NextFilter]_vars

\* ------------------------------------------------------------------------
\* Specification of the result cache: filter_spots called again and again
\* with any of a few argument tuples, more tuples than the cache holds
\* ------------------------------------------------------------------------
FilterArgs(w, d, c, n, m, su) ==
  [wind_min |-> w[1], wind_max |-> w[2], start_date |-> d[1], end_date |-> d[2],
   country |-> c, name |-> n, min_percentage |-> m,
   sustained_wind_min |-> su[1], sustained_wind_days_min |-> su[2]]

\* two tuples that differ in min_percentage only, one with a wrapping date
\* range, one that differs from the first only in a wind_max above 100, one
\* with a name needle and the sustained filter
ArgsAll == FilterArgs(<<0, 100>>, <<D0101, D1231>>, None, None, 0, <<0, 50>>)
ArgsHalf == FilterArgs(<<0, 100>>, <<D0101, D1231>>, None, None, 50, <<0, 50>>)
ArgsWrap == FilterArgs(<<5, 10>>, <<D1231, D0101>>, NL, None, 0, <<0, 50>>)
ArgsAbove100 == FilterArgs(<<0, 150>>, <<D0101, D1231>>, None, None, 0, <<0, 50>>)
ArgsSustained == FilterArgs(<<0, 100>>, <<D0615, D0615>>, None, <<"A">>, 0, <<5, 1>>)

CacheArgs == {ArgsAll, ArgsHalf, ArgsWrap, ArgsAbove100, ArgsSustained}

InitCache ==
  /\ histFile \in {NoFile} \cup {HistFile(v) : v \in VolumesUpTo(1)}
  /\ sustFile = SustFile(SustBase)
  /\ PipelinesInit
  /\ hist = HistInit
  /\ spots = SpotsInit
  /\ day_mask_cache = <<>>
  /\ bin_mask_cache = <<>>
  /\ day_range_cache = <<>>
  /\ filter_cache = <<>>
  /\ argsort_ties \in {"ascending", "descending"}
  /\ req = ArgsAll
  /\ result = [op |-> "init"]
  /\ hist2dDir = <<>>
  /\ cache_2d = <<>>
  /\ threads = <<>>

NextCache == \E a \in CacheArgs : FilterSpots(a)

SpecCache == InitCache /\ [][NextCache]_vars

\* ------------------------------------------------------------------------
\* Specification of the sustained-wind engine: any sustained-wind volume,
\* any threshold and date range
\* ------------------------------------------------------------------------
RECURSIVE SustVolumesUpTo(_)
\* SustBase plus at most n further calendar days of the first spot
SustVolumesUpTo(n) ==
  IF n = 0 THEN {SustBase}
  ELSE LET prev == SustVolumesUpTo(n - 1)
       IN prev \cup { AddObs(v, 0, d, b) :
                        v \in prev, d \in 0..(NumFileDays - 1),
                        b \in 0..(NumFileBins - 1) }

SustRequests ==
  { [wind_threshold |-> t, start_date |-> d0, end_date |-> d1] :
      t \in {0, 5, 7, 10}, d0 \in Dates, d1 \in Dates }

InitSust ==
  /\ histFile = HistFile(BaseVolume)
  /\ sustFile \in {NoFile} \cup {SustFile(v) : v \in SustVolumesUpTo(MaxObs)}
  /\ PipelinesInit
  /\ hist = HistInit
  /\ spots = SpotsInit
  /\ day_mask_cache = <<>>
  /\ bin_mask_cache = <<>>
  /\ day_range_cache = <<>>
  /\ filter_cache = <<>>
  /\ argsort_ties = "ascending"
  /\ req \in SustRequests
  /\ result = [op |-> "init"]
  /\ hist2dDir = <<>>
  /\ cache_2d = <<>>
  /\ threads = <<>>

NextSust ==
  \/ Preload
  \/ CalculateSustainedPercentagesArray

SpecSust == InitSust /\ [][NextSust]_vars

\* ------------------------------------------------------------------------
\* Vocabulary of the filter properties
\* ------------------------------------------------------------------------
\* the wind range of the arguments, 100 and above meaning no upper limit
ArgBins(a) == RangeBins(a.wind_min, IF a.wind_max >= 100 THEN Inf ELSE a.wind_max)

\* total observation count of a spot of the volume file over the date range
SpotTotal(id, a) ==
  CountIn(histFile.data, FileIdx(id), RangeDays(a.start_date, a.end_date), AllBins)

\* a zero-data spot: no row in the histogram volume, or no observation in
\* the requested date range
ZeroData(id, a) == ~FileHasSpot(id) \/ SpotTotal(id, a) = 0

\* the kiteable percentage of a spot that has data
KiteablePct(id, a) ==
  Pct(100 * CountIn(histFile.data, FileIdx(id),
                    RangeDays(a.start_date, a.end_date), ArgBins(a)),
      SpotTotal(id, a))

SustHasSpot(id) ==
  sustFile # NoFile /\ \E i \in DOMAIN sustFile.spot_ids : sustFile.spot_ids[i] = id
SustIdx(id) == CHOOSE i \in DOMAIN sustFile.spot_ids : sustFile.spot_ids[i] = id

\* the threshold bin: the first bin whose low edge is at or above the threshold
ThresholdBins(t) == {b \in AllBins : \E c \in AllBins : c <= b /\ FileBins[c] >= t}

\* the share, in percent, of the calendar days of day-of-year d whose
\* maximum sustained wind fell at or above the threshold (0 without any day)
DayShare(v, s, d, t) ==
  LET all == CountIn(v, s, {d}, AllBins)
  IN IF all = 0 THEN Pct(0, 1) ELSE Pct(100 * CountIn(v, s, {d}, ThresholdBins(t)), all)

PctAdd(p, q) == Pct(p.n * q.d + q.n * p.d, p.d * q.d)

RECURSIVE ShareSum(_, _, _, _)
ShareSum(v, s, D, t) ==
  IF D = {} THEN Pct(0, 1)
  ELSE LET d == CHOOSE x \in D : TRUE
       IN PctAdd(DayShare(v, s, d, t), ShareSum(v, s, D \ {d}, t))

\* the sustained percentage: the arithmetic mean of the per-day shares
SustainedPct(v, s, D, t) ==
  LET sum == ShareSum(v, s, D, t) IN Pct(sum.n, sum.d * Cardinality(D))

\* the spots of the spot table that qualify under the criteria given
Qualifying(a) ==
  {i \in DOMAIN SpotsFile :
     LET id == SpotsFile[i].spot_id
     IN /\ ~ZeroData(id, a)
        /\ PctGe(KiteablePct(id, a), a.min_percentage)
        /\ a.country # <<>> => SpotsFile[i].country = a.country
        /\ a.name # <<>> => Contains(Lower(SpotsFile[i].name), Lower(a.name))
        /\ (a.sustained_wind_min > 0 /\ sustFile # NoFile)
             => /\ SustHasSpot(id)
                /\ PctGe(SustainedPct(sustFile.data, SustIdx(id),
                                      RangeDays(a.start_date, a.end_date),
                                      a.sustained_wind_min),
                         a.sustained_wind_days_min)}

Returned == {result.value[k].spot_id : k \in 1..Len(result.value)}

\* C6: filter_spots returns exactly the spots of the spot table whose
\* kiteable percentage is >= minPercentage and that satisfy every optional
\* criterion given (country, name needle, sustained percentage); each once.
C6_FilterReturnsExactlyQualifying ==
  result.op = "filter_spots"
  => /\ Returned = {SpotsFile[i].spot_id : i \in Qualifying(result.args)}
     /\ Cardinality(Returned) = Len(result.value)

\* C7: the list filter_spots returns is in non-increasing order of kiteable
\* percentage, for the percentages returned and for the unrounded ones.
C7_ResultSortedDescending ==
  result.op = "filter_spots"
  => \A k \in 1..(Len(result.value) - 1) :
       LET pct(e) == IF ZeroData(e.spot_id, result.args) THEN Pct(0, 1)
                     ELSE KiteablePct(e.spot_id, result.args)
       IN /\ result.value[k].kiteable_percentage >= result.value[k + 1].kiteable_percentage
          /\ PctLe(pct(result.value[k + 1]), pct(result.value[k]))

\* three spots returned with three different percentages
C7_Witness ==
  /\ result.op = "filter_spots"
  /\ Len(result.value) = 3
  /\ result.value[1].kiteable_percentage > result.value[2].kiteable_percentage
  /\ result.value[2].kiteable_percentage > result.value[3].kiteable_percentage
  /\ result.value[1].spot_id = "s2"

\* C8: filter_spots never returns a zero-data spot, whatever the arguments.
C8_NoZeroDataSpotReturned ==
  result.op = "filter_spots"
  => \A k \in 1..Len(result.value) : ~ZeroData(result.value[k].spot_id, result.args)

\* what _filter_spots_uncached computes from the files alone, no cache and
\* no memoized mask involved
Uncached(args) ==
  LET a == WithInfinity(args)
      h == Load1dData(HistInit, histFile)
      sp == SpotsLoad(SpotsInit)
      percentages ==
        AllPercentagesArray(h, RangeSums(h, DayRange(h, a.start_date, a.end_date)),
                            BinMask(h, a.wind_min, a.wind_max))
      sustained_pct ==
        IF percentages # None /\ a.sustained_wind_min > 0
        THEN SustainedPercentagesArray(DayMask(h, a.start_date, a.end_date),
                                       a.sustained_wind_min)
        ELSE None
  IN FilterSpotsUncached(h, sp, percentages, sustained_pct, a, argsort_ties)

\* C9: after any sequence of filter_spots calls, evictions included, a call
\* returns what the uncached computation returns for its arguments, which
\* depends on the arguments and the files only: the same ordered list as
\* the first call with those arguments; every cached entry holds that list.
C9_CacheNeverChangesAnswer ==
  /\ result.op = "filter_spots" => result.value = Uncached(result.args)
  /\ \A i \in 1..Len(filter_cache) : \A a \in CacheArgs :
       filter_cache[i].key = CacheKey(WithInfinity(a))
         => filter_cache[i].value = Uncached(a)

\* a hit that returns a non-empty list while the entry of the wrapping
\* range, computed earlier (its day range is memoized), has been evicted
C9_Witness ==
  /\ result.op = "filter_spots"
  /\ result.hit
  /\ Len(result.value) > 1
  /\ Len(filter_cache) = FilterCacheMax
  /\ <<D1231, D0101>> \in DOMAIN day_range_cache
  /\ ~CacheHas(filter_cache, CacheKey(WithInfinity(ArgsWrap)))

\* C10: the sustained percentage of every spot is the arithmetic mean, over
\* the days-of-year of the range, of 100 * (that day's count in the bins
\* from the threshold bin on) / (that day's count in all bins), the volume
\* holding counts of calendar days.
C10_SustainedIsMeanOfDayShares ==
  (result.op = "_calculate_sustained_percentages_array" /\ sustFile # NoFile)
  => /\ result.value # None
     /\ \A s \in DOMAIN sustFile.data :
          /\ result.value[s] # NaN
          /\ PctEq(result.value[s],
                   SustainedPct(sustFile.data, s,
                                RangeDays(req.start_date, req.end_date),
                                req.wind_threshold))

\* ------------------------------------------------------------------------
\* Properties of the sustained-wind engine
\* ------------------------------------------------------------------------
\* thresholds below, at, between and above the low edges of the bins
Thresholds == {0, 3, 5, 7, 10, 12}

\* _calculate_sustained_percentages_array for another threshold, same range
SustainedAt(t) ==
  SustainedPercentagesArray(DayMask(hist, req.start_date, req.end_date), t)

\* C11: for every spot, date range and thresholds t1 <= t2, the sustained
\* percentage at t2 is at most the one at t1: raising the threshold never
\* increases a spot's sustained percentage.
C11_SustainedMonotoneInThreshold ==
  (result.op = "_calculate_sustained_percentages_array" /\ result.value # None)
  => \A t \in Thresholds : \A s \in DOMAIN result.value :
       /\ t >= req.wind_threshold => PctLe(SustainedAt(t)[s], result.value[s])
       /\ t <= req.wind_threshold => PctLe(result.value[s], SustainedAt(t)[s])

\* a spot whose value strictly falls from threshold 0 to the threshold of
\* the call and again to a threshold two bins higher
C11_Witness ==
  /\ result.op = "_calculate_sustained_percentages_array"
  /\ result.value # None
  /\ req.wind_threshold = 5
  /\ \E s \in DOMAIN result.value :
       /\ ~PctLe(SustainedAt(0)[s], result.value[s])
       /\ ~PctLe(result.value[s], SustainedAt(10)[s])
       /\ SustainedAt(10)[s].n > 0

\* ------------------------------------------------------------------------
\* 2D histograms (one file per spot) and the wind rose
\* ------------------------------------------------------------------------
\* a 2D count matrix, strength bins x direction bins
Mat(a, b, c, d) == Arr(<<Arr(<<a, b>>), Arr(<<c, d>>)>>)
ZeroMat == Mat(0, 0, 0, 0)
\* the matrices a day of a file may hold
DayMats == {ZeroMat, Mat(1, 0, 0, 1), Mat(0, 3, 0, 0)}

\* direction bin edges of the files of the model
FileDirectionBins == Arr(<<0, 180, 360>>)

\* the 2D files build_daily_2d_histogram writes: daily_counts has a key for
\* each day-of-year that had samples, and no key for the other days
Hist2dFiles ==
  { [spot_id |-> "s1", strength_bins |-> Arr(<<0, 10, Inf>>),
     direction_bins |-> FileDirectionBins, daily_counts |-> dc] :
       dc \in UNION { [D -> DayMats] : D \in SUBSET Dates } }

\* assignment to a dict
DictSet(d, k, v) == [x \in DOMAIN d \cup {k} |-> IF x = k THEN v ELSE d[x]]

\* HistogramRepository._load_pickle on histograms_2d_dir / f"{spot_id}.pkl"
LoadPickle2d(spot_id) ==
  IF spot_id \in DOMAIN hist2dDir THEN hist2dDir[spot_id] ELSE None

\* HistogramRepository.get_2d_histogram: the value returned
Get2dHistogram(cache, spot_id) ==
  IF spot_id \in DOMAIN cache THEN cache[spot_id] ELSE LoadPickle2d(spot_id)

\* HistogramRepository.get_2d_histogram: _cache_2d after the call
Cache2dAfter(cache, spot_id) ==
  IF spot_id \in DOMAIN cache THEN cache
  ELSE IF LoadPickle2d(spot_id) # None
       THEN DictSet(cache, spot_id, LoadPickle2d(spot_id))
       ELSE cache

\* the dates kept with only the non-wrapping branch
FilterDates_NoWrap(dates, start_date, end_date) ==
  {d \in dates : StrLe(start_date, d) /\ StrLe(d, end_date)}

\* WindRoseService._filter_dates / HistogramService._filter_dates
FilterDates(dates, start_date, end_date) ==
  IF StrLe(start_date, end_date)
  THEN {d \in dates : StrLe(start_date, d) /\ StrLe(d, end_date)}
  ELSE {d \in dates : StrLe(start_date, d) \/ StrLe(d, end_date)}

\* aggregated += np.array(daily_counts[date]) over the filtered dates
MatSum(daily_counts, dates) ==
  [i \in 0..1 |-> [j \in 0..1 |-> SetSum([d \in dates |-> daily_counts[d][i][j]], dates)]]

\* aggregated.sum()
MatTotal(m) == m[0][0] + m[0][1] + m[1][0] + m[1][1]

\* WindRoseService.get_aggregated_windrose, given what get_2d_histogram returned
AggregatedWindrose(hist_data, spot_id, start_date, end_date) ==
  IF hist_data = None THEN None
  ELSE LET daily_counts == hist_data.daily_counts
           filtered_dates == FilterDates(DOMAIN daily_counts, start_date, end_date)
           aggregated == MatSum(daily_counts, filtered_dates)
           total == MatTotal(aggregated)
       IN IF filtered_dates = {} THEN None
          ELSE [spot_id |-> spot_id,
                strength_bins |-> hist_data.strength_bins,
                direction_bins |-> hist_data.direction_bins,
                data |-> [i \in 0..1 |-> [j \in 0..1 |->
                           IF total > 0 THEN Pct(100 * aggregated[i][j], total)
                           ELSE Pct(0, 1)]]]

\* WindRoseService.get_aggregated_windrose(spot_id, start_date, end_date)
GetAggregatedWindrose(spot_id, start_date, end_date) ==
  /\ cache_2d' = Cache2dAfter(cache_2d, spot_id)
  /\ result' = [op |-> "get_aggregated_windrose",
                args |-> [spot_id |-> spot_id, start_date |-> start_date,
                          end_date |-> end_date],
                value |-> AggregatedWindrose(Get2dHistogram(cache_2d, spot_id),
                                             spot_id, start_date, end_date)]
  /\ UNCHANGED <<pipelines, environment, threads, hist, spots, day_mask_cache, bin_mask_cache,
                 day_range_cache, filter_cache, req>>

\* ------------------------------------------------------------------------
\* Specification of the wind rose: any 2D file of spot s1, none of spot s2
\* ------------------------------------------------------------------------
WindroseRequests ==
  { [spot_id |-> id, start_date |-> d0, end_date |-> d1] :
      id \in {"s1", "s2"}, d0 \in Dates, d1 \in Dates }

InitWindrose ==
  /\ histFile = HistFile(BaseVolume)
  /\ sustFile = NoFile
  /\ PipelinesInit
  /\ hist2dDir \in {<<>>} \cup {[id \in {"s1"} |-> f] : f \in Hist2dFiles}
  /\ cache_2d = <<>>
  /\ threads = <<>>
  /\ hist = HistInit
  /\ spots = SpotsInit
  /\ day_mask_cache = <<>>
  /\ bin_mask_cache = <<>>
  /\ day_range_cache = <<>>
  /\ filter_cache = <<>>
  /\ argsort_ties = "ascending"
  /\ req \in WindroseRequests
  /\ result = [op |-> "init"]

NextWindrose == GetAggregatedWindrose(req.spot_id, req.start_date, req.end_date)

SpecWindrose == InitWindrose /\ [][NextWindrose]_vars

\* ------------------------------------------------------------------------
\* Specification of the optional volumes: the sustained-wind volume and the
\* 2D file of a spot present or absent, filter_spots and the wind rose
\* called in any order
\* ------------------------------------------------------------------------
ArgsSustainedAll == FilterArgs(<<0, 100>>, <<D0101, D1231>>, None, None, 0, <<5, 50>>)
ArgsSustainedWrap == FilterArgs(<<5, 10>>, <<D1231, D0101>>, NL, None, 25, <<10, 50>>)

OptionalArgs == {ArgsAll, ArgsSustained, ArgsSustainedAll, ArgsSustainedWrap}

\* one 2D file of spot s1
Hist2dFileS1 ==
  [spot_id |-> "s1", strength_bins |-> Arr(<<0, 10, Inf>>),
   direction_bins |-> FileDirectionBins,
   daily_counts |-> [d \in {D0101, D1231} |->
                       IF d = D0101 THEN Mat(1, 0, 0, 1) ELSE Mat(0, 3, 0, 0)]]

InitOptional ==
  /\ histFile \in {HistFile(BaseVolume), HistFile(AddObs(BaseVolume, 0, 0, 1))}
  /\ sustFile \in {NoFile, SustFile(SustBase)}
  /\ PipelinesInit
  /\ hist2dDir \in {<<>>, [id \in {"s1"} |-> Hist2dFileS1]}
  /\ cache_2d = <<>>
  /\ threads = <<>>
  /\ hist = HistInit
  /\ spots = SpotsInit
  /\ day_mask_cache = <<>>
  /\ bin_mask_cache = <<>>
  /\ day_range_cache = <<>>
  /\ filter_cache = <<>>
  /\ argsort_ties = "ascending"
  /\ req = ArgsAll
  /\ result = [op |-> "init"]

\* the wind rose of either spot, over the year and over a wrapping range
OptionalWindroseRequests ==
  { [spot_id |-> id, start_date |-> d[1], end_date |-> d[2]] :
      id \in {"s1", "s2"}, d \in {<<D0101, D1231>>, <<D1231, D0101>>} }

NextOptional ==
  \/ \E a \in OptionalArgs : FilterSpots(a)
  \/ \E w \in OptionalWindroseRequests :
       GetAggregatedWindrose(w.spot_id, w.start_date, w.end_date)

SpecOptional == InitOptional /\ [][NextOptional]_vars

\* C12: with no sustained-wind volume, filter_spots called with
\* sustainedWindMin > 0 returns what the remaining criteria select (the
\* list of the same call with the sustained filter off); for a spot without
\* a 2D file get_aggregated_windrose returns None.
C12_MissingOptionalVolumeDegrades ==
  /\ (result.op = "filter_spots" /\ sustFile = NoFile
        /\ result.args.sustained_wind_min > 0)
     => result.value = Uncached([result.args EXCEPT !.sustained_wind_min = 0])
  /\ (result.op = "get_aggregated_windrose"
        /\ result.args.spot_id \notin DOMAIN hist2dDir)
     => result.value = None

\* the wind rose of a spot without a 2D file has just been asked for, after
\* a filter call with a sustained threshold returned spots although there
\* is no sustained-wind volume
C12_Witness ==
  /\ sustFile = NoFile
  /\ result.op = "get_aggregated_windrose"
  /\ result.args.spot_id \notin DOMAIN hist2dDir
  /\ result.value = None
  /\ \E i \in 1..Len(filter_cache) :
       /\ filter_cache[i].key[8] > 0
       /\ Len(filter_cache[i].value) > 0

\* ------------------------------------------------------------------------
\* The single-spot histogram in its legacy dict format
\* ------------------------------------------------------------------------
\* HistogramRepository.get_1d_histogram, given the loaded repository
Histogram1d(h, spot_id) ==
  IF spot_id \notin DOMAIN h.spot_to_idx_1d \/ h.data_1d = None THEN None
  ELSE LET spot_data == h.data_1d[h.spot_to_idx_1d[spot_id]]
       IN [spot_id |-> spot_id,
           bins |-> h.bins_1d,
           daily_counts |-> [day \in {h.days_1d[i] : i \in DOMAIN h.days_1d} |->
                               spot_data[h.day_to_idx_1d[day]]]]

\* HistogramRepository.get_1d_histogram(spot_id)
Get1dHistogram ==
  LET h == Load1dData(hist, histFile)
  IN /\ hist' = h
     /\ result' = [op |-> "get_1d_histogram", value |-> Histogram1d(h, req.spot_id)]
     /\ UNCHANGED <<pipelines, environment, cache_2d, threads, spots, day_mask_cache,
                    bin_mask_cache, day_range_cache, filter_cache, req>>

\* ------------------------------------------------------------------------
\* Specification of the absent 1D file: the file absent or present, every
\* query of the store and the filter, in any order and any number of times
\* ------------------------------------------------------------------------
\* filter_spots arguments with the wind range and the dates of req
ReqFilterArgs ==
  FilterArgs(<<req.wind_min, req.wind_max>>, <<req.start_date, req.end_date>>,
             None, None, 0, <<0, 50>>)

InitAbsent ==
  /\ histFile \in {NoFile, HistFile(BaseVolume)}
  /\ sustFile = NoFile
  /\ PipelinesInit
  /\ hist2dDir = <<>>
  /\ cache_2d = <<>>
  /\ threads = <<>>
  /\ hist = HistInit
  /\ spots = SpotsInit
  /\ day_mask_cache = <<>>
  /\ bin_mask_cache = <<>>
  /\ day_range_cache = <<>>
  /\ filter_cache = <<>>
  /\ argsort_ties = "ascending"
  /\ req \in Requests
  /\ result = [op |-> "init"]

NextAbsent ==
  \/ Preload
  \/ GetRangeSums
  \/ CalculateKiteablePercentage
  \/ Get1dHistogram
  \/ FilterSpots(ReqFilterArgs)

SpecAbsent == InitAbsent /\ [][NextAbsent]_vars

\* C13: with the 1D histogram file absent, every query reports "no data",
\* on the first call and on every later one: get_range_sums,
\* calculate_kiteable_percentage and get_1d_histogram return None and
\* filter_spots returns the empty list.
C13_AbsentFileMeansNoData ==
  histFile = NoFile =>
    /\ result.op \in {"get_range_sums", "calculate_kiteable_percentage",
                      "get_1d_histogram"} => result.value = None
    /\ result.op = "filter_spots" => result.value = <<>>
    /\ hist.data_1d = None

\* a later call: the file is absent, the filter has answered before (its
\* answer is cached) and the single-spot percentage is asked for after that
C13_Witness ==
  /\ histFile = NoFile
  /\ hist.loaded_1d
  /\ Len(filter_cache) = 1
  /\ filter_cache[1].value = <<>>
  /\ result.op = "calculate_kiteable_percentage"
  /\ result.value = None

\* ------------------------------------------------------------------------
\* HistogramService: daily histograms, moving average, daily percentage
\* ------------------------------------------------------------------------
\* _sanitize_for_json: infinity replaced by 100
SanitizeForJson(bins) == [i \in DOMAIN bins |-> IF bins[i] = Inf THEN 100 ELSE bins[i]]

\* a histogram of daily_data: the list counts[b] / n (n = 1 for plain
\* counts, the number of averaged days for np.mean)
DayHist(counts, n) == [counts |-> counts, n |-> n]

\* HistogramService.get_daily_histograms, given what get_1d_histogram returned
DailyHistograms(hist_data, spot_id, start_date, end_date) ==
  IF hist_data = None THEN None
  ELSE LET filtered_dates ==
             FilterDates(DOMAIN hist_data.daily_counts, start_date, end_date)
       IN [spot_id |-> spot_id,
           bins |-> SanitizeForJson(hist_data.bins),
           daily_data |-> [d \in filtered_dates |->
                             DayHist(hist_data.daily_counts[d], 1)]]

\* to_day_number with months of 31 days
ToDayNumber_Months31(date_str) ==
  ((date_str[1] * 10 + date_str[2]) - 1) * 31 + (date_str[3] * 10 + date_str[4])
\* to_day_number: (month - 1) * 30 + day
ToDayNumber(date_str) ==
  ((date_str[1] * 10 + date_str[2]) - 1) * 30 + (date_str[3] * 10 + date_str[4])

Abs(x) == IF x < 0 THEN -x ELSE x
Min2(x, y) == IF x <= y THEN x ELSE y

\* HistogramService._get_window_dates
WindowDates(target_date, all_dates, window_days) ==
  {date \in all_dates :
     LET diff == Abs(ToDayNumber(date) - ToDayNumber(target_date))
         wrap_diff == 365 - diff
     IN Min2(diff, wrap_diff) <= window_days}

\* HistogramService.get_moving_average_histograms, given what
\* get_1d_histogram returned
MovingAverageHistograms(hist_data, spot_id, start_date, end_date, window_weeks) ==
  IF hist_data = None THEN None
  ELSE LET daily_counts == hist_data.daily_counts
           all_dates == DOMAIN daily_counts
           filtered_dates == FilterDates(all_dates, start_date, end_date)
           window_days == window_weeks * 7
           window(t) == WindowDates(t, all_dates, window_days)
       IN [spot_id |-> spot_id,
           bins |-> SanitizeForJson(hist_data.bins),
           daily_data |->
             [t \in {d \in filtered_dates : window(d) # {}} |->
                DayHist([b \in DOMAIN daily_counts[t] |->
                           SetSum([d \in window(t) |-> daily_counts[d][b]], window(t))],
                        Cardinality(window(t)))]]

\* the body of the loop over daily_data: the percentage of one day in
\* tenths, 0.0 for a zero total
DayPercentage(bins, h, wind_min, wind_max) ==
  LET total == SetSum(h.counts, DOMAIN h.counts)
      counted == {i \in DOMAIN h.counts :
                    LET bin_low == bins[i]
                        bin_high == IF i + 1 < ALen(bins) THEN bins[i + 1] ELSE Inf
                    IN \/ bin_low >= wind_min /\ bin_high <= wind_max
                       \/ bin_low < wind_max /\ bin_high > wind_min}
  IN IF total = 0 THEN 0
     ELSE Round1(Pct(100 * SetSum(h.counts, counted), total))

\* HistogramService.get_kiteable_percentage, given what get_1d_histogram
\* returned
KiteablePercentageDaily(hist_data, a) ==
  LET wind_max == IF a.wind_max >= 100 THEN Inf ELSE a.wind_max
      hist_result ==
        IF a.moving_average
        THEN MovingAverageHistograms(hist_data, a.spot_id, a.start_date,
                                     a.end_date, a.window_weeks)
        ELSE DailyHistograms(hist_data, a.spot_id, a.start_date, a.end_date)
  IN IF hist_result = None THEN None
     ELSE [spot_id |-> a.spot_id,
           wind_min |-> a.wind_min,
           wind_max |-> IF wind_max # Inf THEN wind_max ELSE 100,
           daily_percentage |->
             [d \in DOMAIN hist_result.daily_data |->
                DayPercentage(hist_result.bins, hist_result.daily_data[d],
                              a.wind_min, wind_max)]]

\* HistogramService.get_kiteable_percentage(spot_id, wind_min, wind_max,
\* start_date, end_date, moving_average, window_weeks)
GetKiteablePercentage ==
  LET h == Load1dData(hist, histFile)
  IN /\ hist' = h
     /\ result' = [op |-> "get_kiteable_percentage",
                   value |-> KiteablePercentageDaily(Histogram1d(h, req.spot_id), req)]
     /\ UNCHANGED <<pipelines, environment, cache_2d, threads, spots, day_mask_cache,
                    bin_mask_cache, day_range_cache, filter_cache, req>>

\* ------------------------------------------------------------------------
\* Specification of the per-day percentage: any volume file, any arguments
\* ------------------------------------------------------------------------
DailyRequests ==
  { [spot_id |-> r.spot_id, wind_min |-> r.wind_min, wind_max |-> r.wind_max,
     start_date |-> r.start_date, end_date |-> r.end_date,
     moving_average |-> m, window_weeks |-> 2] :
      r \in Requests, m \in BOOLEAN }

InitDaily ==
  /\ histFile \in {NoFile} \cup {HistFile(v) : v \in VolumesUpTo(MaxObs)}
  /\ sustFile = NoFile
  /\ PipelinesInit
  /\ hist2dDir = <<>>
  /\ cache_2d = <<>>
  /\ threads = <<>>
  /\ hist = HistInit
  /\ spots = SpotsInit
  /\ day_mask_cache = <<>>
  /\ bin_mask_cache = <<>>
  /\ day_range_cache = <<>>
  /\ filter_cache = <<>>
  /\ argsort_ties = "ascending"
  /\ req \in DailyRequests
  /\ result = [op |-> "init"]

NextDaily ==
  \/ Get1dHistogram
  \/ GetKiteablePercentage

SpecDaily == InitDaily /\ [][NextDaily]_vars

\* C14: in the per-day response without smoothing, a day whose histogram
\* has zero observations is not reported with the value 0.0, the value of a
\* day that has observations none of which fall in the wind range.
C14_ZeroObservationDayNotZeroPercent ==
  (result.op = "get_kiteable_percentage" /\ result.value # None
     /\ ~req.moving_average)
  => \A d \in DOMAIN result.value.daily_percentage :
       CountIn(histFile.data, FileIdx(req.spot_id), {CalIdx(d)}, AllBins) = 0
         => result.value.daily_percentage[d] # 0

\* ------------------------------------------------------------------------
\* Properties of the bin mask
\* ------------------------------------------------------------------------
\* C15: for a degenerate wind range windMin = windMax = p the bin mask
\* selects exactly the bins that contain p, bin [low, high) containing p
\* iff low <= p < high, also when p is a bin edge.
C15_DegenerateRangeSelectsContainingBins ==
  \A key \in DOMAIN bin_mask_cache :
    key[1] = key[2]
      => \A i \in DOMAIN bin_mask_cache[key] :
           bin_mask_cache[key][i] <=> (FileBins[i] <= key[1] /\ key[1] < FileBins[i + 1])

\* ------------------------------------------------------------------------
\* SustainedWindBuilder (data_pipelines/services/sustained_wind_builder.py)
\* ------------------------------------------------------------------------
\* Longest hourly series handed to _compute_rolling_min_max.
MaxSeries == 4
\* Longest timestamps / wind_strength array handed to the builder.
MaxSamples == 3

\* Wind strengths in knots: one value per bin of WIND_BINS.
Strengths == {0, 6, 12}
WindowSizes == 1..3

\* WIND_BINS with the bin width scaled from 2.5 to 5 and three bins kept.
WIND_BINS == Arr(<<0, 5, 10, Inf>>)

\* An Optional[float]: None or a sequence holding the value.
Some(x) == <<x>>

SeqsUpTo(S, n) == UNION {[1..k -> S] : k \in 0..n}

SeqMin(s) == CHOOSE x \in {s[i] : i \in DOMAIN s} : \A i \in DOMAIN s : x <= s[i]

\* Series.rolling(window, min_periods = 1).min(): partial leading windows count.
RollingMin_MinPeriodsOne(series, window_size) ==
  [i \in 1..Len(series) |->
     IF i < window_size THEN Pct(SeqMin(SubSeq(series, 1, i)), 1)
     ELSE Pct(SeqMin(SubSeq(series, i - window_size + 1, i)), 1)]

\* Series.rolling(window, min_periods = window).min(): NaN until the window
\* is full, then the minimum of the last window_size values.
RollingMin(series, window_size) ==
  [i \in 1..Len(series) |->
     IF i < window_size THEN NaN
     ELSE Pct(SeqMin(SubSeq(series, i - window_size + 1, i)), 1)]

\* Series.max(): the largest value that is not NaN, NaN when there is none.
SeriesMax(s) ==
  LET vals == {s[i].n : i \in {j \in DOMAIN s : s[j] # NaN}}
  IN IF vals = {} THEN NaN
     ELSE Pct(CHOOSE x \in vals : \A y \in vals : y <= x, 1)

RollingMinMax(wind_strength, window_size) ==
  IF Len(wind_strength) < window_size THEN 0
  ELSE LET rolling_min == RollingMin(wind_strength, window_size)
           max_sustained == SeriesMax(rolling_min)
       IN IF max_sustained = NaN THEN 0 ELSE max_sustained.n

\* numpy boolean indexing a[mask].
RECURSIVE MaskSeq(_, _)
MaskSeq(seq, mask) ==
  IF seq = <<>> THEN <<>>
  ELSE (IF Head(mask) THEN <<Head(seq)>> ELSE <<>>) \o MaskSeq(Tail(seq), Tail(mask))

\* DaylightService.create_daylight_mask: a timestamp carries whether it lies
\* between the sunrise and the sunset of its date at the location.
DaylightMask(filter_enabled, latitude, longitude, timestamps) ==
  IF ~filter_enabled THEN [i \in DOMAIN timestamps |-> TRUE]
  ELSE [i \in DOMAIN timestamps |-> timestamps[i].daylight]

ApplyDaylightFilter(filter_daylight, timestamps, wind_strength, latitude, longitude) ==
  IF ~filter_daylight \/ latitude = None \/ longitude = None
  THEN [timestamps |-> timestamps, wind_strength |-> wind_strength]
  ELSE LET mask == DaylightMask(filter_daylight, latitude, longitude, timestamps)
       IN [timestamps |-> MaskSeq(timestamps, mask),
           wind_strength |-> MaskSeq(wind_strength, mask)]

\* df.groupby('date'): the strengths of one calendar date, in input order.
DayStrength(timestamps, wind_strength, calendar_date) ==
  MaskSeq(wind_strength, [i \in DOMAIN timestamps |-> timestamps[i].date = calendar_date])

\* calendar_day_sustained[day_of_year]: the maximum sustained wind of every
\* calendar date of that day-of-year (a list in the code; kept by date here).
CalendarDaySustained(timestamps, wind_strength, sustained_hours, day_of_year) ==
  LET calendar_dates == {timestamps[i].date : i \in DOMAIN timestamps}
  IN [cd \in {c \in calendar_dates : c[2] = day_of_year} |->
        RollingMinMax(DayStrength(timestamps, wind_strength, cd), sustained_hours)]

\* np.histogram(values, bins): half-open bins, the last one closed.
NpHistogram(values, bins) ==
  LET last == ALen(bins) - 2
  IN [b \in 0..last |->
        Cardinality({k \in DOMAIN values :
                       /\ bins[b] <= values[k]
                       /\ (values[k] < bins[b + 1] \/ (b = last /\ values[k] = bins[b + 1]))})]

DailyCounts(timestamps, wind_strength, sustained_hours, bins) ==
  LET days == {timestamps[i].date[2] : i \in DOMAIN timestamps}
  IN [day_of_year \in days |->
        NpHistogram(CalendarDaySustained(timestamps, wind_strength, sustained_hours, day_of_year), bins)]

\* The attrs class DailySustainedWind: its generated __init__ accepts exactly
\* its fields as keywords and raises TypeError on any other keyword.
DailySustainedWindFields == {"spot_id", "sustained_hours", "bins", "daily_percentages"}

DailySustainedWind(kwargs) ==
  IF DOMAIN kwargs = DailySustainedWindFields THEN kwargs
  ELSE [raised |-> "TypeError"]

BuildDailySustainedWind(b, spot_id, timestamps, wind_strength, latitude, longitude) ==
  LET f == ApplyDaylightFilter(b.filter_daylight, timestamps, wind_strength, latitude, longitude)
  IN IF Len(f.timestamps) = 0
     THEN DailySustainedWind([spot_id |-> spot_id, sustained_hours |-> b.sustained_hours,
                              bins |-> b.bins, daily_counts |-> <<>>])
     ELSE DailySustainedWind([spot_id |-> spot_id, sustained_hours |-> b.sustained_hours,
                              bins |-> b.bins,
                              daily_counts |-> DailyCounts(f.timestamps, f.wind_strength,
                                                           b.sustained_hours, b.bins)])

\* --- the builder called on one input ---
CalendarDates == {<<1, FileDays[0]>>, <<2, FileDays[0]>>, <<1, FileDays[1]>>}
Timestamps == [date : CalendarDates, daylight : BOOLEAN]

RollingRequests ==
  [op : {"_compute_rolling_min_max"}, wind_strength : SeqsUpTo(Strengths, MaxSeries),
   window_size : WindowSizes]

BuildRequests ==
  UNION {[op : {"build_daily_sustained_wind"},
          builder : [sustained_hours : {1, 2}, filter_daylight : BOOLEAN, bins : {WIND_BINS}],
          spot_id : {"s1"},
          timestamps : [1..k -> Timestamps],
          wind_strength : [1..k -> {6, 12}],
          latitude : {None, Some(52)},
          longitude : {Some(4)}] : k \in 0..MaxSamples}

ComputeRollingMinMax ==
  /\ req.op = "_compute_rolling_min_max"
  /\ result' = [op |-> req.op, value |-> RollingMinMax(req.wind_strength, req.window_size)]
  /\ UNCHANGED <<pipelines, environment, cache_2d, threads, hist, spots, day_mask_cache, bin_mask_cache,
                 day_range_cache, filter_cache, req>>

BuildDailySustainedWindCall ==
  /\ req.op = "build_daily_sustained_wind"
  /\ result' = [op |-> req.op,
                value |-> BuildDailySustainedWind(req.builder, req.spot_id, req.timestamps,
                                                  req.wind_strength, req.latitude, req.longitude)]
  /\ UNCHANGED <<pipelines, environment, cache_2d, threads, hist, spots, day_mask_cache, bin_mask_cache,
                 day_range_cache, filter_cache, req>>

InitBuilder ==
  /\ histFile = NoFile
  /\ sustFile = NoFile
  /\ PipelinesInit
  /\ hist2dDir = <<>>
  /\ argsort_ties = "ascending"
  /\ cache_2d = <<>>
  /\ threads = <<>>
  /\ hist = HistInit
  /\ spots = SpotsInit
  /\ day_mask_cache = <<>>
  /\ bin_mask_cache = <<>>
  /\ day_range_cache = <<>>
  /\ filter_cache = <<>>
  /\ req \in RollingRequests \cup BuildRequests
  /\ result = [op |-> "init"]

NextBuilder == ComputeRollingMinMax \/ BuildDailySustainedWindCall

SpecBuilder == InitBuilder /\ [][NextBuilder]_vars

\* ------------------------------------------------------------------------
\* Properties of the sustained wind builder
\* ------------------------------------------------------------------------
\* Some window of window_size consecutive samples of w stays at or above v.
HeldForWindow(w, window_size, v) ==
  \E j \in 1..(Len(w) - window_size + 1) :
    \A i \in j..(j + window_size - 1) : w[i] >= v

\* C16: _compute_rolling_min_max(w, H) is the maximum over all windows of H
\* consecutive samples of the window's minimum when len(w) >= H, and 0.0
\* when len(w) < H: the value returned is held by a full window, and no
\* larger value is held by any full window.
C16_RollingMinMaxIsBestFullWindow ==
  result.op = "_compute_rolling_min_max"
  => IF Len(req.wind_strength) < req.window_size
     THEN result.value = 0
     ELSE /\ \E i \in DOMAIN req.wind_strength : req.wind_strength[i] = result.value
          /\ HeldForWindow(req.wind_strength, req.window_size, result.value)
          /\ \A v \in Strengths :
               HeldForWindow(req.wind_strength, req.window_size, v) => v <= result.value

C16_Witness ==
  /\ result.op = "_compute_rolling_min_max"
  /\ req.window_size = 2
  /\ Len(req.wind_strength) = 4
  /\ result.value = 6
  /\ \E i \in DOMAIN req.wind_strength : req.wind_strength[i] = 12


\* The samples the builder works on, after the daylight filter.
BuilderInput ==
  ApplyDaylightFilter(req.builder.filter_daylight, req.timestamps, req.wind_strength,
                      req.latitude, req.longitude)

\* The calendar dates of one day-of-year that have at least one sample.
DatesObserved(day_of_year) ==
  {BuilderInput.timestamps[i].date : i \in DOMAIN BuilderInput.timestamps}
    \cap {cd \in CalendarDates : cd[2] = day_of_year}

DaysObserved == {cd[2] : cd \in {BuilderInput.timestamps[i].date : i \in DOMAIN BuilderInput.timestamps}}

\* The per-day mapping of a built DailySustainedWind.
DayVectors(v) == IF "daily_counts" \in DOMAIN v THEN v.daily_counts ELSE v.daily_percentages

\* C17: build_daily_sustained_wind returns, for every day-of-year with at
\* least one sample, a bin-count vector that sums to the number of distinct
\* calendar dates observed for that day-of-year (days with fewer than H
\* samples included), never to the number of hourly samples.
C17_DayCountsSumToCalendarDates ==
  result.op = "build_daily_sustained_wind"
  => /\ "raised" \notin DOMAIN result.value
     /\ DOMAIN DayVectors(result.value) = DaysObserved
     /\ \A day \in DaysObserved :
          SetSum(DayVectors(result.value)[day], DOMAIN DayVectors(result.value)[day])
            = Cardinality(DatesObserved(day))

\* C18: the result of build_daily_sustained_wind has a mapping
\* daily_max_sustained holding, for every day-of-year with data, the
\* arithmetic mean over the contributing calendar dates of the date's
\* maximum sustained wind; the mapping is empty when there are no samples.
C18_DailyMaxSustainedIsMeanOverYears ==
  result.op = "build_daily_sustained_wind"
  => /\ "raised" \notin DOMAIN result.value
     /\ "daily_max_sustained" \in DOMAIN result.value
     /\ DOMAIN result.value.daily_max_sustained = DaysObserved
     /\ \A day \in DaysObserved :
          LET per_date == CalendarDaySustained(BuilderInput.timestamps, BuilderInput.wind_strength,
                                               req.builder.sustained_hours, day)
          IN PctEq(result.value.daily_max_sustained[day],
                   Pct(SetSum(per_date, DOMAIN per_date), Cardinality(DOMAIN per_date)))


\* ------------------------------------------------------------------------
\* Properties of the wind rose
\* ------------------------------------------------------------------------
\* The days of the spot's 2D file that lie in the requested range.
RoseDays ==
  {d \in DOMAIN hist2dDir[result.args.spot_id].daily_counts :
     CalIdx(d) \in RangeDays(result.args.start_date, result.args.end_date)}

\* The number of observations of one cell of the matrix over the days D.
RoseCell(D, i, j) ==
  SetSum([d \in D |-> hist2dDir[result.args.spot_id].daily_counts[d][i][j]], D)

RoseTotal(D) == RoseCell(D, 0, 0) + RoseCell(D, 0, 1) + RoseCell(D, 1, 0) + RoseCell(D, 1, 1)

\* The matrix returned is 100 * S / total(S) and its entries sum to 100.
RoseIsShares(D) ==
  /\ \A i \in 0..1 : \A j \in 0..1 :
       PctEq(result.value.data[i][j], Pct(100 * RoseCell(D, i, j), RoseTotal(D)))
  /\ \A i \in 0..1 : \A j \in 0..1 : result.value.data[i][j].d = RoseTotal(D)
  /\ MatTotal([i \in 0..1 |-> [j \in 0..1 |-> result.value.data[i][j].n]]) = 100 * RoseTotal(D)

RoseIsZero ==
  \A i \in 0..1 : \A j \in 0..1 : result.value.data[i][j].n = 0

\* C19 as stated: for a spot with a 2D file and any date range the wind
\* rose is 100 * S / total(S) over exactly the days in the range, summing
\* to 100, and an all-zero matrix when no observations exist in the range.
C19_WindroseIsSharesOrAllZero ==
  (result.op = "get_aggregated_windrose" /\ result.args.spot_id \in DOMAIN hist2dDir)
  => /\ result.value # None
     /\ IF RoseTotal(RoseDays) > 0 THEN RoseIsShares(RoseDays) ELSE RoseIsZero

\* C19 amended: the wind rose is None when the range holds no day of the
\* file; otherwise it is 100 * S / total(S) over exactly the days in the
\* range, summing to 100, or an all-zero matrix when those days hold no
\* observation.
C19_WindroseIsSharesZeroOrNone ==
  (result.op = "get_aggregated_windrose" /\ result.args.spot_id \in DOMAIN hist2dDir)
  => IF RoseDays = {} THEN result.value = None
     ELSE /\ result.value # None
          /\ IF RoseTotal(RoseDays) > 0 THEN RoseIsShares(RoseDays) ELSE RoseIsZero

C19_Witness ==
  /\ result.op = "get_aggregated_windrose"
  /\ result.args.spot_id \in DOMAIN hist2dDir
  /\ StrLt(result.args.end_date, result.args.start_date)
  /\ Cardinality(RoseDays) = 2
  /\ RoseDays # DOMAIN hist2dDir[result.args.spot_id].daily_counts
  /\ RoseTotal(RoseDays) = 5
  /\ result.value # None
  /\ result.value.data[0][1].n = 300

C19_WitnessNone ==
  /\ result.op = "get_aggregated_windrose"
  /\ result.args.spot_id \in DOMAIN hist2dDir
  /\ DOMAIN hist2dDir[result.args.spot_id].daily_counts # {}
  /\ RoseDays = {}
  /\ result.value = None


\* ------------------------------------------------------------------------
\* Concurrent filter_spots calls on the shared SpotService: each access to
\* the result cache (membership test, read, length test, oldest key, pop,
\* insertion) is one step of the calling thread
\* ------------------------------------------------------------------------
ThreadIds == {"t1", "t2"}

RaceArgs == {ArgsAll, ArgsHalf, ArgsWrap, ArgsSustained}

\* what the uncached path of filter_spots computes and memoizes
ComputeEffects(args) ==
  LET a == WithInfinity(args)
      h == Load1dData(hist, histFile)
      rkey == <<a.start_date, a.end_date>>
      rcomputed == DayRange(h, a.start_date, a.end_date)
      range_sums == RangeSums(h, LruGet(day_range_cache, rkey, rcomputed))
      bkey == <<a.wind_min, a.wind_max>>
      bcomputed == BinMask(h, a.wind_min, a.wind_max)
      percentages == AllPercentagesArray(h, range_sums,
                                         LruGet(bin_mask_cache, bkey, bcomputed))
      bin_mask_used == range_sums # None /\ ALen(h.spot_ids_1d) # 0
      sp == SpotsLoad(spots)
      day_mask_used == /\ percentages # None
                       /\ a.sustained_wind_min > 0
                       /\ GetSustainedData # None
                       /\ ALen(GetSustainedSpotIds) # 0
      mcomputed == DayMask(h, a.start_date, a.end_date)
      sustained_pct ==
        IF percentages # None /\ a.sustained_wind_min > 0
        THEN SustainedPercentagesArray(LruGet(day_mask_cache, rkey, mcomputed),
                                       a.sustained_wind_min)
        ELSE None
  IN [hist |-> h,
      day_range_cache |-> IF range_sums = None THEN day_range_cache
                          ELSE LruPut(day_range_cache, rkey, rcomputed),
      bin_mask_cache |-> IF bin_mask_used THEN LruPut(bin_mask_cache, bkey, bcomputed)
                         ELSE bin_mask_cache,
      spots |-> IF percentages = None THEN spots ELSE sp,
      day_mask_cache |-> IF day_mask_used THEN LruPut(day_mask_cache, rkey, mcomputed)
                         ELSE day_mask_cache,
      value |-> FilterSpotsUncached(h, sp, percentages, sustained_pct, a, argsort_ties)]

ThreadKey(t) == CacheKey(WithInfinity(threads[t].args))

Goto(t, pc) == threads' = [threads EXCEPT ![t].pc = pc]

\* a request arrives: filter_spots is entered with the arguments a
RaceCall(t, a) ==
  /\ threads[t].pc \in {"idle", "done", "raised"}
  /\ threads' = [threads EXCEPT ![t] = [pc |-> "in", args |-> a, oldest |-> <<>>,
                                        value |-> <<>>, raised |-> "none"]]
  /\ UNCHANGED <<pipelines, environment, cache_2d, hist, spots, day_mask_cache, bin_mask_cache,
                 day_range_cache, filter_cache, req, result>>

\* if cache_key in self._filter_cache
RaceIn(t) ==
  /\ threads[t].pc = "in"
  /\ Goto(t, IF CacheHas(filter_cache, ThreadKey(t)) THEN "getitem" ELSE "compute")
  /\ UNCHANGED <<pipelines, environment, cache_2d, hist, spots, day_mask_cache, bin_mask_cache,
                 day_range_cache, filter_cache, req, result>>

\* return self._filter_cache[cache_key]
RaceGetItem(t) ==
  /\ threads[t].pc = "getitem"
  /\ threads' = IF CacheHas(filter_cache, ThreadKey(t))
                THEN [threads EXCEPT ![t].pc = "done",
                                     ![t].value = CacheGet(filter_cache, ThreadKey(t))]
                ELSE [threads EXCEPT ![t].pc = "raised", ![t].raised = "KeyError"]
  /\ UNCHANGED <<pipelines, environment, cache_2d, hist, spots, day_mask_cache, bin_mask_cache,
                 day_range_cache, filter_cache, req, result>>

\* result = self._filter_spots_uncached(...)
RaceCompute(t) ==
  /\ threads[t].pc = "compute"
  /\ LET e == ComputeEffects(threads[t].args)
     IN /\ hist' = e.hist
        /\ day_range_cache' = e.day_range_cache
        /\ bin_mask_cache' = e.bin_mask_cache
        /\ spots' = e.spots
        /\ day_mask_cache' = e.day_mask_cache
        /\ threads' = [threads EXCEPT ![t].pc = "len", ![t].value = e.value]
  /\ UNCHANGED <<pipelines, environment, cache_2d, filter_cache, req, result>>

\* if len(self._filter_cache) >= 512
RaceLen(t) ==
  /\ threads[t].pc = "len"
  /\ Goto(t, IF Len(filter_cache) >= FilterCacheMax THEN "next" ELSE "setitem")
  /\ UNCHANGED <<pipelines, environment, cache_2d, hist, spots, day_mask_cache, bin_mask_cache,
                 day_range_cache, filter_cache, req, result>>

\* next(iter(self._filter_cache))
RaceNext(t) ==
  /\ threads[t].pc = "next"
  /\ threads' = IF Len(filter_cache) = 0
                THEN [threads EXCEPT ![t].pc = "raised", ![t].raised = "StopIteration"]
                ELSE [threads EXCEPT ![t].pc = "pop", ![t].oldest = filter_cache[1].key]
  /\ UNCHANGED <<pipelines, environment, cache_2d, hist, spots, day_mask_cache, bin_mask_cache,
                 day_range_cache, filter_cache, req, result>>

\* dict.pop(key): the entry is removed, KeyError when it is not there
DictPop(cache, key) ==
  SelectSeq(cache, LAMBDA e : e.key # key)

\* self._filter_cache.pop(<oldest key>)
RacePop(t) ==
  /\ threads[t].pc = "pop"
  /\ IF CacheHas(filter_cache, threads[t].oldest)
     THEN /\ filter_cache' = DictPop(filter_cache, threads[t].oldest)
          /\ Goto(t, "setitem")
     ELSE /\ threads' = [threads EXCEPT ![t].pc = "raised", ![t].raised = "KeyError"]
          /\ UNCHANGED filter_cache
  /\ UNCHANGED <<pipelines, environment, cache_2d, hist, spots, day_mask_cache, bin_mask_cache,
                 day_range_cache, req, result>>

\* dict[key] = value: a present key keeps its place, a new key goes last
DictSetItem(cache, key, value) ==
  IF CacheHas(cache, key)
  THEN [i \in 1..Len(cache) |->
          IF cache[i].key = key THEN [key |-> key, value |-> value] ELSE cache[i]]
  ELSE Append(cache, [key |-> key, value |-> value])

\* self._filter_cache[cache_key] = result; return result
RaceSetItem(t) ==
  /\ threads[t].pc = "setitem"
  /\ filter_cache' = DictSetItem(filter_cache, ThreadKey(t), threads[t].value)
  /\ Goto(t, "done")
  /\ UNCHANGED <<pipelines, environment, cache_2d, hist, spots, day_mask_cache, bin_mask_cache,
                 day_range_cache, req, result>>

InitRace ==
  /\ histFile = HistFile(AddObs(BaseVolume, 0, 0, 1))
  /\ sustFile = SustFile(SustBase)
  /\ PipelinesInit
  /\ hist2dDir = <<>>
  /\ argsort_ties = "ascending"
  /\ cache_2d = <<>>
  /\ threads = [t \in ThreadIds |-> [pc |-> "idle", args |-> ArgsAll, oldest |-> <<>>,
                                     value |-> <<>>, raised |-> "none"]]
  /\ hist = HistInit
  /\ spots = SpotsInit
  /\ day_mask_cache = <<>>
  /\ bin_mask_cache = <<>>
  /\ day_range_cache = <<>>
  /\ filter_cache = <<>>
  /\ req = ArgsAll
  /\ result = [op |-> "init"]

NextRace ==
  \E t \in ThreadIds :
    \/ \E a \in RaceArgs : RaceCall(t, a)
    \/ RaceIn(t)
    \/ RaceGetItem(t)
    \/ RaceCompute(t)
    \/ RaceLen(t)
    \/ RaceNext(t)
    \/ RacePop(t)
    \/ RaceSetItem(t)

SpecRace == InitRace /\ [][NextRace]_vars

\* ------------------------------------------------------------------------
\* Properties of concurrent calls
\* ------------------------------------------------------------------------
\* C20: under every interleaving of concurrent filter_spots calls on the
\* shared service no call raises, and every call that returns gives the
\* result it gives when run alone.
C20_RacesOnlyRecompute ==
  \A t \in DOMAIN threads :
    /\ threads[t].pc # "raised"
    /\ threads[t].pc = "done" => threads[t].value = Uncached(threads[t].args)


\* ------------------------------------------------------------------------
\* The per-spot 2D cache of the repository: a directory with one more 2D
\* file than the bound under test, the files read in any order
\* ------------------------------------------------------------------------
\* The bound on the number of cached 2D histograms that is put to the test.
Cache2dBound == 2

SpotIds2dAll == <<"s1", "s2", "s3", "s4", "s5">>
SpotIds2d == {SpotIds2dAll[i] : i \in 1..(Cache2dBound + 1)}

\* HistogramRepository.get_2d_histogram(spot_id)
Get2dHistogramCall(spot_id) ==
  /\ cache_2d' = Cache2dAfter(cache_2d, spot_id)
  /\ result' = [op |-> "get_2d_histogram", args |-> [spot_id |-> spot_id],
                value |-> Get2dHistogram(cache_2d, spot_id)]
  /\ UNCHANGED <<pipelines, environment, threads, hist, spots, day_mask_cache, bin_mask_cache,
                 day_range_cache, filter_cache, req>>

Init2dCache ==
  /\ histFile = HistFile(BaseVolume)
  /\ sustFile = NoFile
  /\ PipelinesInit
  /\ hist2dDir = [id \in SpotIds2d |-> [Hist2dFileS1 EXCEPT !.spot_id = id]]
  /\ cache_2d = <<>>
  /\ threads = <<>>
  /\ hist = HistInit
  /\ spots = SpotsInit
  /\ day_mask_cache = <<>>
  /\ bin_mask_cache = <<>>
  /\ day_range_cache = <<>>
  /\ filter_cache = <<>>
  /\ argsort_ties = "ascending"
  /\ req = ArgsAll
  /\ result = [op |-> "init"]

Next2dCache ==
  \E id \in SpotIds2d \cup {"s9"} :
    \/ Get2dHistogramCall(id)
    \/ \E d0 \in Dates, d1 \in Dates : GetAggregatedWindrose(id, d0, d1)

Spec2dCache == Init2dCache /\ [][Next2dCache]_vars

\* C22: after any sequence of get_2d_histogram calls for any number of
\* distinct spot ids, the number of 2D histograms held in the in-memory
\* cache stays at or below a fixed bound.
C22_Cache2dStaysBounded ==
  Cardinality(DOMAIN cache_2d) <= Cache2dBound


\* ------------------------------------------------------------------------
\* Properties of the result cache under sequential calls
\* ------------------------------------------------------------------------
\* The key of the call that has just returned.
ReturnedKey == CacheKey(WithInfinity(result'.args))

\* C23: after any sequence of sequential filter_spots calls the result
\* cache holds at most FilterCacheMax entries (512 in the code); a call that
\* misses on a full cache removes exactly the entry inserted earliest and
\* then inserts the new one, and a call that hits leaves the cache as it is.
C23_ResultCacheBoundedFifo ==
  /\ [](Len(filter_cache) <= FilterCacheMax)
  /\ [][result'.op = "filter_spots"
        => IF CacheHas(filter_cache, ReturnedKey)
           THEN filter_cache' = filter_cache
           ELSE /\ Len(filter_cache) = FilterCacheMax
                     => /\ Len(filter_cache') = FilterCacheMax
                        /\ \A i \in 1..(FilterCacheMax - 1) : filter_cache'[i] = filter_cache[i + 1]
                        /\ ~CacheHas(filter_cache', filter_cache[1].key)
                /\ Len(filter_cache) < FilterCacheMax
                     => /\ Len(filter_cache') = Len(filter_cache) + 1
                        /\ \A i \in 1..Len(filter_cache) : filter_cache'[i] = filter_cache[i]
                /\ filter_cache'[Len(filter_cache')].key = ReturnedKey]_vars

C23_Witness ==
  /\ result.op = "filter_spots"
  /\ ~result.hit
  /\ Len(filter_cache) = FilterCacheMax
  /\ Cardinality(DOMAIN day_range_cache) > FilterCacheMax
  /\ filter_cache[FilterCacheMax].key = CacheKey(WithInfinity(result.args))
  /\ ~CacheHas(filter_cache, CacheKey(WithInfinity(ArgsAll)))


\* ------------------------------------------------------------------------
\* Order of ties in the filter result
\* ------------------------------------------------------------------------
\* The position of a returned spot in the spot table.
TableIndex(id) == CHOOSE i \in DOMAIN SpotsFile : SpotsFile[i].spot_id = id

\* The percentage the sort compares: 0 for a zero-data spot.
SortedPct(e) ==
  IF ZeroData(e.spot_id, result.args) THEN Pct(0, 1) ELSE KiteablePct(e.spot_id, result.args)

D0131 == <<0, 1, 3, 1>>
D0201 == <<0, 2, 0, 1>>
D0229 == <<0, 2, 2, 9>>
D0301 == <<0, 3, 0, 1>>

WindowTestDates == {D0101, D0131, D0201, D0229, D0301, D1231}

WindowRequests ==
  [target_date : WindowTestDates, all_dates : SUBSET WindowTestDates, window_days : {0, 14}]

\* HistogramService._get_window_dates(target_date, all_dates, window_days)
GetWindowDates ==
  /\ result' = [op |-> "_get_window_dates",
                value |-> WindowDates(req.target_date, req.all_dates, req.window_days)]
  /\ UNCHANGED <<pipelines, environment, cache_2d, threads, hist, spots, day_mask_cache, bin_mask_cache,
                 day_range_cache, filter_cache, req>>

InitWindow ==
  /\ histFile = NoFile
  /\ sustFile = NoFile
  /\ PipelinesInit
  /\ hist2dDir = <<>>
  /\ cache_2d = <<>>
  /\ threads = <<>>
  /\ hist = HistInit
  /\ spots = SpotsInit
  /\ day_mask_cache = <<>>
  /\ bin_mask_cache = <<>>
  /\ day_range_cache = <<>>
  /\ filter_cache = <<>>
  /\ argsort_ties = "ascending"
  /\ req \in WindowRequests
  /\ result = [op |-> "init"]

NextWindow == GetWindowDates

SpecWindow == InitWindow /\ [][NextWindow]_vars

\* The circular distance the smoother computes between two dates.
DayDistance(d1, d2) ==
  Min2(Abs(ToDayNumber(d1) - ToDayNumber(d2)), 365 - Abs(ToDayNumber(d1) - ToDayNumber(d2)))

\* The request asks for the window of one of the two dates, the other one
\* being a date of the file.
AcrossJanuaryEnd ==
  /\ result.op = "_get_window_dates"
  /\ \/ req.target_date = D0131 /\ D0201 \in req.all_dates
     \/ req.target_date = D0201 /\ D0131 \in req.all_dates

OtherDate == IF req.target_date = D0131 THEN D0201 ELSE D0131

\* C27 as stated: the distance computed between 01-31 and 02-01 is 30 days,
\* so for a window of 14 days neither day is in the other's window.
C27_JanuaryEndThirtyDaysApart ==
  AcrossJanuaryEnd
  => /\ DayDistance(D0131, D0201) = 30
     /\ req.window_days = 14 => OtherDate \notin result.value

\* C27 amended: the approximate numbering gives 01-31 and 02-01 the same
\* number 31, so the distance computed is 0 days and each day is in the
\* other's window for every window size, a window of 0 days included.
C27_JanuaryEndZeroDaysApart ==
  AcrossJanuaryEnd
  => /\ ToDayNumber(D0131) = 31 /\ ToDayNumber(D0201) = 31
     /\ DayDistance(D0131, D0201) = 0
     /\ OtherDate \in result.value

C27_Witness ==
  /\ AcrossJanuaryEnd
  /\ req.target_date = D0131
  /\ req.window_days = 0
  /\ result.value = {D0131, D0201}
  /\ D0101 \in req.all_dates


\* ------------------------------------------------------------------------
\* Date strings the API accepts that are no calendar slot: the index-based
\* and the mask-based selection of days side by side
\* ------------------------------------------------------------------------
D0230 == <<0, 2, 3, 0>>
D1131 == <<1, 1, 3, 1>>

\* The strings matching ^\d{2}-\d{2}$ that the model draws from.
AcceptedDates == Dates \cup {D0230, D1131}

AcceptedDateRequests ==
  { [spot_id |-> "s1", wind_min |-> 0, wind_max |-> 100,
     start_date |-> d0, end_date |-> d1] : d0 \in AcceptedDates, d1 \in AcceptedDates }

\* HistogramRepository.get_1d_day_indices(start_date, end_date)
Get1dDayIndices ==
  LET h == Load1dData(hist, histFile)
      dkey == <<req.start_date, req.end_date>>
      dcomputed == DayMask(h, req.start_date, req.end_date)
  IN /\ hist' = h
     /\ IF h.days_1d = None
        THEN /\ result' = [op |-> "get_1d_day_indices", value |-> [raised |-> "TypeError"]]
             /\ UNCHANGED day_mask_cache
        ELSE /\ day_mask_cache' = LruPut(day_mask_cache, dkey, dcomputed)
             /\ result' = [op |-> "get_1d_day_indices",
                           value |-> LruGet(day_mask_cache, dkey, dcomputed)]
     /\ UNCHANGED <<pipelines, environment, cache_2d, threads, spots, bin_mask_cache, day_range_cache,
                    filter_cache, req>>

InitDates ==
  /\ histFile \in {HistFile(v) : v \in VolumesUpTo(1)}
  /\ sustFile = NoFile
  /\ PipelinesInit
  /\ hist2dDir = <<>>
  /\ cache_2d = <<>>
  /\ threads = <<>>
  /\ hist = HistInit
  /\ spots = SpotsInit
  /\ day_mask_cache = <<>>
  /\ bin_mask_cache = <<>>
  /\ day_range_cache = <<>>
  /\ filter_cache = <<>>
  /\ argsort_ties = "ascending"
  /\ req \in AcceptedDateRequests
  /\ result = [op |-> "init"]

NextDates == GetRangeSums \/ Get1dDayIndices \/ CalculateKiteablePercentage

SpecDates == InitDates /\ [][NextDates]_vars

\* The days the mask-based get_1d_day_indices selects for the request.
MaskDays ==
  {d \in DOMAIN FileDays : DayMask(Load1dData(HistInit, histFile), req.start_date, req.end_date)[d]}

\* C30: for every pair of accepted date strings, strings that are no
\* calendar slot included, the days summed by the index-based
\* get_range_sums are exactly the days selected by the mask-based
\* get_1d_day_indices, each counted once.
C30_IndexAndMaskSelectSameDays ==
  (result.op = "get_range_sums" /\ result.value # None)
  => \A s \in DOMAIN histFile.data : \A b \in AllBins :
       result.value[s][b] = CountOn(histFile.data, s, b, MaskDays)


\* ------------------------------------------------------------------------
\* Specification of the serving phase: one repository and one service,
\* queries of every kind arriving one after another with new arguments
\* ------------------------------------------------------------------------
FrameRequests ==
  { [spot_id |-> "s1", wind_min |-> w[1], wind_max |-> w[2],
     start_date |-> d[1], end_date |-> d[2],
     moving_average |-> m, window_weeks |-> 2] :
      w \in {<<0, 100>>, <<5, 10>>}, d \in {<<D0101, D1231>>, <<D1231, D0101>>},
      m \in BOOLEAN }

\* the next query arrives with its own arguments
NextRequest ==
  /\ req' \in FrameRequests
  /\ UNCHANGED <<pipelines, environment, cache_2d, threads, hist, spots, day_mask_cache, bin_mask_cache,
                 day_range_cache, filter_cache, result>>

InitFrame ==
  /\ histFile = HistFile(AddObs(BaseVolume, 0, 0, 1))
  /\ sustFile = NoFile
  /\ PipelinesInit
  /\ hist2dDir = <<>>
  /\ cache_2d = <<>>
  /\ threads = <<>>
  /\ hist = HistInit
  /\ spots = SpotsInit
  /\ day_mask_cache = <<>>
  /\ bin_mask_cache = <<>>
  /\ day_range_cache = <<>>
  /\ filter_cache = <<>>
  /\ argsort_ties = "ascending"
  /\ req \in FrameRequests
  /\ result = [op |-> "init"]

NextFrame ==
  \/ NextRequest
  \/ Preload
  \/ GetRangeSums
  \/ Get1dDayIndices
  \/ Get1dHistogram
  \/ CalculateKiteablePercentage
  \/ FilterSpots(ReqFilterArgs)
  \/ GetKiteablePercentage

SpecFrame == InitFrame /\ [][NextFrame]_vars

\* Every entry of the memo m is in the memo n, with the value it had.
EntriesKept(m, n) == \A k \in DOMAIN m : k \in DOMAIN n /\ n[k] = m[k]

LoadThreads == {"t1", "t2"}

LoadQueries == {"get_range_sums", "filter_by_country"}

\* np.zeros((num_spots, num_days + 1, num_bins))
ZeroPrefix(data) ==
  [s \in DOMAIN data |-> [k \in 0..ALen(data[s]) |-> [b \in DOMAIN data[s][0] |-> 0]]]

At(t, pc) == threads[t].pc = pc
Step(t, pc) == threads' = [threads EXCEPT ![t].pc = pc]

\* a query arrives
LoadCall(t, q) ==
  /\ threads[t].pc \in {"idle", "done"}
  /\ threads' = [threads EXCEPT ![t] = [pc |-> "check", op |-> q, value |-> <<>>]]
  /\ UNCHANGED <<pipelines, environment, cache_2d, hist, spots, day_mask_cache, bin_mask_cache,
                 day_range_cache, filter_cache, req, result>>

\* if self._1d_loaded: return  /  if self._loaded: return
LoadCheck(t) ==
  /\ At(t, "check")
  /\ Step(t, IF threads[t].op = "get_range_sums"
             THEN (IF hist.loaded_1d THEN "query" ELSE "fields")
             ELSE (IF spots.loaded THEN "query" ELSE "df"))
  /\ UNCHANGED <<pipelines, environment, cache_2d, hist, spots, day_mask_cache, bin_mask_cache,
                 day_range_cache, filter_cache, req, result>>

\* pickle.load and the assignments of _1d_data ... _1d_day_to_idx
Load1dFields(t) ==
  /\ At(t, "fields")
  /\ hist' = [hist EXCEPT !.data_1d = histFile.data,
                          !.spot_ids_1d = histFile.spot_ids,
                          !.spot_to_idx_1d = IndexMap(histFile.spot_ids),
                          !.bins_1d = histFile.bins,
                          !.days_1d = histFile.days,
                          !.day_to_idx_1d = IndexMap(histFile.days)]
  /\ Step(t, "zeros")
  /\ UNCHANGED <<pipelines, environment, cache_2d, spots, day_mask_cache, bin_mask_cache,
                 day_range_cache, filter_cache, req, result>>

\* self._1d_prefix = np.zeros(...)
Load1dZeros(t) ==
  /\ At(t, "zeros")
  /\ hist' = [hist EXCEPT !.prefix_1d = ZeroPrefix(hist.data_1d)]
  /\ Step(t, "cumsum")
  /\ UNCHANGED <<pipelines, environment, cache_2d, spots, day_mask_cache, bin_mask_cache,
                 day_range_cache, filter_cache, req, result>>

\* np.cumsum(self._1d_data, axis=1, out=self._1d_prefix[:, 1:, :])
Load1dCumsum(t) ==
  /\ At(t, "cumsum")
  /\ hist' = [hist EXCEPT !.prefix_1d = BuildPrefix(hist.data_1d)]
  /\ Step(t, "flag")
  /\ UNCHANGED <<pipelines, environment, cache_2d, spots, day_mask_cache, bin_mask_cache,
                 day_range_cache, filter_cache, req, result>>

\* self._df = pickle.load(f)
LoadSpotsDf(t) ==
  /\ At(t, "df")
  /\ spots' = [spots EXCEPT !.df = SpotsFile]
  /\ Step(t, "index")
  /\ UNCHANGED <<pipelines, environment, cache_2d, hist, day_mask_cache, bin_mask_cache,
                 day_range_cache, filter_cache, req, result>>

\* the loop that appends every row index to self._country_index
LoadSpotsIndex(t) ==
  /\ At(t, "index")
  /\ spots' = [spots EXCEPT !.country_index = CountryIndex(spots.df, 0, spots.country_index)]
  /\ Step(t, "arrays")
  /\ UNCHANGED <<pipelines, environment, cache_2d, hist, day_mask_cache, bin_mask_cache,
                 day_range_cache, filter_cache, req, result>>

\* the parallel arrays _spot_ids ... _names_lower
LoadSpotsArrays(t) ==
  /\ At(t, "arrays")
  /\ spots' = [spots EXCEPT
       !.spot_ids = [i \in DOMAIN spots.df |-> spots.df[i].spot_id],
       !.names = [i \in DOMAIN spots.df |-> spots.df[i].name],
       !.countries = [i \in DOMAIN spots.df |-> spots.df[i].country],
       !.spot_id_to_idx = IndexMap([i \in DOMAIN spots.df |-> spots.df[i].spot_id]),
       !.names_lower = [i \in DOMAIN spots.df |-> Lower(spots.df[i].name)]]
  /\ Step(t, "flag")
  /\ UNCHANGED <<pipelines, environment, cache_2d, hist, day_mask_cache, bin_mask_cache,
                 day_range_cache, filter_cache, req, result>>

\* self._1d_loaded = True  /  self._loaded = True
LoadFlag(t) ==
  /\ At(t, "flag")
  /\ IF threads[t].op = "get_range_sums"
     THEN hist' = [hist EXCEPT !.loaded_1d = TRUE] /\ UNCHANGED spots
     ELSE spots' = [spots EXCEPT !.loaded = TRUE] /\ UNCHANGED hist
  /\ Step(t, "query")
  /\ UNCHANGED <<pipelines, environment, cache_2d, day_mask_cache, bin_mask_cache,
                 day_range_cache, filter_cache, req, result>>

\* SpotRepository.filter_by_country after _load: the row indices selected
FilterByCountry(sp, country) ==
  IF country \in DOMAIN sp.country_index THEN sp.country_index[country] ELSE <<>>

\* the body of the query after the load call has returned
LoadQuery(t) ==
  /\ At(t, "query")
  /\ LET key == <<req.start_date, req.end_date>>
         computed == DayRange(hist, req.start_date, req.end_date)
     IN IF threads[t].op = "get_range_sums"
        THEN /\ threads' = [threads EXCEPT
                  ![t].pc = "done",
                  ![t].value = RangeSums(hist, LruGet(day_range_cache, key, computed))]
             /\ day_range_cache' = IF hist.data_1d = None THEN day_range_cache
                                   ELSE LruPut(day_range_cache, key, computed)
        ELSE /\ threads' = [threads EXCEPT ![t].pc = "done",
                                           ![t].value = FilterByCountry(spots, NL)]
             /\ UNCHANGED day_range_cache
  /\ UNCHANGED <<pipelines, environment, cache_2d, hist, spots, day_mask_cache, bin_mask_cache,
                 filter_cache, req, result>>

InitLoad ==
  /\ histFile = HistFile(AddObs(BaseVolume, 0, 0, 1))
  /\ sustFile = NoFile
  /\ PipelinesInit
  /\ hist2dDir = <<>>
  /\ cache_2d = <<>>
  /\ threads = [t \in LoadThreads |-> [pc |-> "idle", op |-> "get_range_sums", value |-> <<>>]]
  /\ hist = HistInit
  /\ spots = SpotsInit
  /\ day_mask_cache = <<>>
  /\ bin_mask_cache = <<>>
  /\ day_range_cache = <<>>
  /\ filter_cache = <<>>
  /\ argsort_ties = "ascending"
  /\ req \in {r \in Requests : r.spot_id = "s1" /\ r.wind_min = 0 /\ r.wind_max = 100}
  /\ result = [op |-> "init"]

NextLoad ==
  \E t \in LoadThreads :
    \/ \E q \in LoadQueries : LoadCall(t, q)
    \/ LoadCheck(t)
    \/ Load1dFields(t)
    \/ Load1dZeros(t)
    \/ Load1dCumsum(t)
    \/ LoadSpotsDf(t)
    \/ LoadSpotsIndex(t)
    \/ LoadSpotsArrays(t)
    \/ LoadFlag(t)
    \/ LoadQuery(t)

SpecLoad == InitLoad /\ [][NextLoad]_vars

\* C21: under every interleaving of queries that arrive while the first
\* load is running, every query returns what it returns after a single
\* sequential load: no range sum is read from prefix sums that are not yet
\* filled, and the country index lists each spot once.
C21_QueriesSeeTheLoadedState ==
  \A t \in DOMAIN threads :
    threads[t].pc = "done"
    => IF threads[t].op = "get_range_sums"
       THEN LET h == Load1dData(HistInit, histFile)
            IN threads[t].value = RangeSums(h, DayRange(h, req.start_date, req.end_date))
       ELSE threads[t].value = FilterByCountry(SpotsLoad(SpotsInit), NL)


\* ------------------------------------------------------------------------
\* HistogramBuilder.accumulate (data_pipelines/services/histogram_builder.py)
\* ------------------------------------------------------------------------
\* Most chunks accumulated for a spot, and most samples in one chunk.
MaxChunks == 2
MaxChunkLen == 2

\* A daytime hour of one day-of-year and a night hour of another.
DayHour == [date |-> <<1, FileDays[0]>>, daylight |-> TRUE]
NightHour == [date |-> <<2, FileDays[1]>>, daylight |-> FALSE]

\* The hourly samples a chunk is made of: finite wind strengths in knots.
ChunkSamples ==
  {[time |-> DayHour, strength |-> 6], [time |-> DayHour, strength |-> 12],
   [time |-> NightHour, strength |-> 12]}

\* One chunk of a spot's time series, as the arrays handed to accumulate.
Chunks ==
  {[timestamps |-> [i \in DOMAIN samples |-> samples[i].time],
    wind_strength |-> [i \in DOMAIN samples |-> samples[i].strength]] :
     samples \in SeqsUpTo(ChunkSamples, MaxChunkLen)}

Registered == [s \in {"s1"} |-> <<Some(52), Some(4)>>]

\* A builder without the filter never reads the coordinates: it is taken
\* with the coordinates registered only.
AccumulateRequests ==
  {r \in [op : {"accumulate"},
          builder : [filter_daylight : BOOLEAN, wind_bins : {WIND_BINS},
                     spot_coords : {<<>>, Registered}],
          spot_id : {"s1"},
          latitude : {None},
          longitude : {None}] :
     r.builder.filter_daylight \/ DOMAIN r.builder.spot_coords # {}}

\* _get_day_of_year: strftime("%m-%d") of every timestamp.
GetDayOfYear(timestamps) == [i \in DOMAIN timestamps |-> timestamps[i].date[2]]

\* accum[day] = counts_1d: the chunk's counts replace the running total.
AddCounts_Overwrite(total, counts) == counts

\* accum[day] += counts_1d
AddCounts(total, counts) == [b \in DOMAIN total |-> total[b] + counts[b]]

\* The value of _accum_1d after accumulate(spot_id, timestamps, wind_strength, ...).
Accumulate(b, accum, spot_id, timestamps, wind_strength, latitude, longitude) ==
  LET use_registered == (latitude = None \/ longitude = None) /\ spot_id \in DOMAIN b.spot_coords
      lat == IF use_registered THEN b.spot_coords[spot_id][1] ELSE latitude
      lon == IF use_registered THEN b.spot_coords[spot_id][2] ELSE longitude
      f == ApplyDaylightFilter(b.filter_daylight, timestamps, wind_strength, lat, lon)
  IN IF Len(f.timestamps) = 0 THEN accum
     ELSE LET day_of_year == GetDayOfYear(f.timestamps)
              unique_days == {day_of_year[i] : i \in DOMAIN day_of_year}
              old == IF spot_id \in DOMAIN accum THEN accum[spot_id] ELSE <<>>
              counts_1d(day) ==
                NpHistogram(MaskSeq(f.wind_strength,
                                    [i \in DOMAIN day_of_year |-> day_of_year[i] = day]),
                            b.wind_bins)
              new == [day \in DOMAIN old \cup unique_days |->
                        IF day \notin unique_days THEN old[day]
                        ELSE IF day \in DOMAIN old THEN AddCounts(old[day], counts_1d(day))
                        ELSE counts_1d(day)]
          IN [s \in DOMAIN accum \cup {spot_id} |-> IF s = spot_id THEN new ELSE accum[s]]

AccumulateCall ==
  /\ req.op = "accumulate"
  /\ Len(accumulated) < MaxChunks
  /\ \E chunk \in Chunks :
       /\ accum_1d' = Accumulate(req.builder, accum_1d, req.spot_id, chunk.timestamps,
                                 chunk.wind_strength, req.latitude, req.longitude)
       /\ accumulated' = Append(accumulated, chunk)
  /\ result' = [op |-> req.op, value |-> None]
  /\ UNCHANGED <<environment, cache_2d, threads, hist, spots, day_mask_cache, bin_mask_cache,
                 day_range_cache, filter_cache, req, checkpoint_file, ts_store, run>>

GetAccumulated1d ==
  /\ req.op = "accumulate"
  /\ result' = [op |-> "get_accumulated_1d",
                value |-> IF req.spot_id \notin DOMAIN accum_1d THEN [raised |-> "ValueError"]
                          ELSE [spot_id |-> req.spot_id, bins |-> req.builder.wind_bins,
                                daily_counts |-> accum_1d[req.spot_id]]]
  /\ UNCHANGED <<pipelines, environment, cache_2d, threads, hist, spots, day_mask_cache,
                 bin_mask_cache, day_range_cache, filter_cache, req>>

InitAccumulate ==
  /\ histFile = NoFile
  /\ sustFile = NoFile
  /\ PipelinesInit
  /\ hist2dDir = <<>>
  /\ argsort_ties = "ascending"
  /\ cache_2d = <<>>
  /\ threads = <<>>
  /\ hist = HistInit
  /\ spots = SpotsInit
  /\ day_mask_cache = <<>>
  /\ bin_mask_cache = <<>>
  /\ day_range_cache = <<>>
  /\ filter_cache = <<>>
  /\ req \in AccumulateRequests
  /\ result = [op |-> "init"]

NextAccumulate == AccumulateCall \/ GetAccumulated1d

SpecAccumulate == InitAccumulate /\ [][NextAccumulate]_vars

\* ------------------------------------------------------------------------
\* Properties of the accumulation
\* ------------------------------------------------------------------------
\* The daylight filter leaves the chunks as they are.
FilterNotApplied == ~req.builder.filter_daylight \/ req.spot_id \notin DOMAIN req.builder.spot_coords

\* The strengths of one chunk that fall on a day-of-year.
ChunkDayStrength(chunk, day) ==
  MaskSeq(chunk.wind_strength, [i \in DOMAIN chunk.timestamps |-> chunk.timestamps[i].date[2] = day])

RECURSIVE AllDayStrength(_, _)
AllDayStrength(chunks, day) ==
  IF chunks = <<>> THEN <<>>
  ELSE ChunkDayStrength(Head(chunks), day) \o AllDayStrength(Tail(chunks), day)

RECURSIVE SumOfChunkHistograms(_, _)
SumOfChunkHistograms(chunks, day) ==
  IF chunks = <<>> THEN [b \in 0..(ALen(WIND_BINS) - 2) |-> 0]
  ELSE [b \in 0..(ALen(WIND_BINS) - 2) |->
          NpHistogram(ChunkDayStrength(Head(chunks), day), WIND_BINS)[b]
            + SumOfChunkHistograms(Tail(chunks), day)[b]]

RECURSIVE CountsTotal(_, _)
CountsTotal(counts, b) == IF b < 0 THEN 0 ELSE counts[b] + CountsTotal(counts, b - 1)

DaysAccumulated == {day \in {FileDays[0], FileDays[1]} : AllDayStrength(accumulated, day) # <<>>}

\* C25: with the daylight filter not applied, after any sequence of
\* accumulate calls for a spot (wind strengths finite and not negative) the
\* accumulated 1D counts of each day-of-year are the histogram of all
\* samples of all chunks of that day, which is the elementwise sum of the
\* per-chunk histograms; the counts of a day sum to the number of samples
\* accumulated for it; and a call leaves the counts of every day on which
\* its chunk has no sample as they were.
C25_AccumulatedCountsAreTheSumOfChunks ==
  /\ []((req.op = "accumulate" /\ FilterNotApplied)
        => IF DaysAccumulated = {} THEN "s1" \notin DOMAIN accum_1d
           ELSE /\ DOMAIN accum_1d["s1"] = DaysAccumulated
                /\ \A day \in DaysAccumulated :
                     /\ accum_1d["s1"][day] = NpHistogram(AllDayStrength(accumulated, day), WIND_BINS)
                     /\ accum_1d["s1"][day] = SumOfChunkHistograms(accumulated, day)
                     /\ CountsTotal(accum_1d["s1"][day], ALen(WIND_BINS) - 2)
                          = Len(AllDayStrength(accumulated, day)))
  /\ [][(req.op = "accumulate" /\ FilterNotApplied /\ "s1" \in DOMAIN accum_1d)
        => \A day \in DOMAIN accum_1d["s1"] :
             (accumulated' # accumulated
              /\ ChunkDayStrength(accumulated'[Len(accumulated')], day) = <<>>)
             => accum_1d'["s1"][day] = accum_1d["s1"][day]]_vars

\* Two chunks have put samples on the same day, in different bins, and an
\* earlier chunk touched a day on which the last chunk has no sample.
C25_Witness ==
  /\ req.op = "accumulate"
  /\ FilterNotApplied
  /\ Len(accumulated) = 2
  /\ "s1" \in DOMAIN accum_1d
  /\ DOMAIN accum_1d["s1"] = {FileDays[0], FileDays[1]}
  /\ ChunkDayStrength(accumulated[1], FileDays[0]) # <<>>
  /\ ChunkDayStrength(accumulated[2], FileDays[0]) # <<>>
  /\ ChunkDayStrength(accumulated[2], FileDays[1]) = <<>>
  /\ accum_1d["s1"][FileDays[0]][1] >= 1
  /\ accum_1d["s1"][FileDays[0]][2] >= 1
  /\ CountsTotal(accum_1d["s1"][FileDays[0]], ALen(WIND_BINS) - 2) = 3


\* ------------------------------------------------------------------------
\* ARCO phase 1 (data_pipelines/main.py, checkpoint_service.py,
\* timeseries_store.py): runs of run_phase1_arco, taken step by step, with
\* failed downloads, failed extractions, interruptions and restarts
\* ------------------------------------------------------------------------
\* Periods of get_chunk_periods, cells of get_cells_with_spots (one spot
\* each), and runs started one after the other.
NumPeriods == 2
NumCells == 2
MaxRuns == 2

\* period_key of the n-th period; cell_idx runs from 0.
Periods == 1..NumPeriods
Cells == 0..(NumCells - 1)
CellSpot(cell_idx) == SpotIds2dAll[cell_idx + 1]

\* CheckpointState(): the dataclass defaults.
CheckpointState == [completed_periods |-> <<>>, current_period |-> None, cells_extracted |-> <<>>]

InSeq(x, seq) == \E i \in DOMAIN seq : seq[i] = x

\* CheckpointService.load in a new process: the saved state, or a new one.
CheckpointLoad == IF checkpoint_file = <<>> THEN CheckpointState ELSE checkpoint_file

StartPeriod(state, period) ==
  [state EXCEPT !.current_period = Some(period), !.cells_extracted = <<>>]

MarkCellExtracted(state, cell_index) ==
  IF InSeq(cell_index, state.cells_extracted) THEN state
  ELSE [state EXCEPT !.cells_extracted = Append(@, cell_index)]

CompletePeriod(state) ==
  [state EXCEPT
     !.completed_periods =
        IF state.current_period # None /\ ~InSeq(state.current_period[1], @)
        THEN Append(@, state.current_period[1]) ELSE @,
     !.current_period = None,
     !.cells_extracted = <<>>]

\* np.argsort(time) over the concatenated series: chunks in period order.
RECURSIVE SortByTime(_, _)
SortByTime(chunks, period) ==
  IF period > NumPeriods THEN <<>>
  ELSE SelectSeq(chunks, LAMBDA c : c = period) \o SortByTime(chunks, period + 1)

\* TimeseriesStore.append_spot_data: the spot's file after the append.
AppendSpotData(store, spot_id, chunk) ==
  [store EXCEPT ![spot_id] = SortByTime(Append(@, chunk), 1)]

Running == run.pc # "stopped"
Period == run.period_idx

NextPeriod == [run EXCEPT !.pc = "period", !.period_idx = @ + 1]

\* python main.py: a new process loads the checkpoint and enters the loop.
StartRun ==
  /\ ~Running
  /\ run.runs < MaxRuns
  /\ run' = [pc |-> "period", runs |-> run.runs + 1, period_idx |-> 1, cell_idx |-> 0,
             state |-> CheckpointLoad]
  /\ UNCHANGED <<environment, cache_2d, threads, hist, spots, day_mask_cache, bin_mask_cache,
                 day_range_cache, filter_cache, req, result, accum_1d, accumulated,
                 checkpoint_file, ts_store>>

\* for period_idx, ... in enumerate(periods): skip completed periods
PeriodLoop ==
  /\ run.pc = "period"
  /\ run' = IF Period > NumPeriods THEN [run EXCEPT !.pc = "stopped"]
            ELSE IF InSeq(Period, run.state.completed_periods) THEN NextPeriod
            ELSE [run EXCEPT !.pc = "download"]
  /\ UNCHANGED <<environment, cache_2d, threads, hist, spots, day_mask_cache, bin_mask_cache,
                 day_range_cache, filter_cache, req, result, accum_1d, accumulated,
                 checkpoint_file, ts_store>>

\* download_global_period: a failed download skips the period
DownloadGlobalPeriod ==
  /\ run.pc = "download"
  /\ \E downloaded \in BOOLEAN :
       run' = IF downloaded THEN [run EXCEPT !.pc = "start"] ELSE NextPeriod
  /\ UNCHANGED <<environment, cache_2d, threads, hist, spots, day_mask_cache, bin_mask_cache,
                 day_range_cache, filter_cache, req, result, accum_1d, accumulated,
                 checkpoint_file, ts_store>>

\* checkpoint.start_period(period_key)
StartPeriodCall ==
  /\ run.pc = "start"
  /\ run' = [run EXCEPT !.pc = "open", !.state = StartPeriod(@, Period)]
  /\ checkpoint_file' = run'.state
  /\ UNCHANGED <<environment, cache_2d, threads, hist, spots, day_mask_cache, bin_mask_cache,
                 day_range_cache, filter_cache, req, result, accum_1d, accumulated, ts_store>>

\* with xr.open_dataset(global_path) as ds: an error skips the period
OpenDataset ==
  /\ run.pc = "open"
  /\ \E opened \in BOOLEAN :
       run' = IF opened THEN [run EXCEPT !.pc = "cell", !.cell_idx = 0] ELSE NextPeriod
  /\ UNCHANGED <<environment, cache_2d, threads, hist, spots, day_mask_cache, bin_mask_cache,
                 day_range_cache, filter_cache, req, result, accum_1d, accumulated,
                 checkpoint_file, ts_store>>

\* for cell_idx, cell in enumerate(cells_with_spots): skip extracted cells
CellLoop ==
  /\ run.pc = "cell"
  /\ run' = IF run.cell_idx = NumCells THEN [run EXCEPT !.pc = "complete"]
            ELSE IF InSeq(run.cell_idx, run.state.cells_extracted)
                 THEN [run EXCEPT !.cell_idx = @ + 1]
            ELSE [run EXCEPT !.pc = "extract"]
  /\ UNCHANGED <<environment, cache_2d, threads, hist, spots, day_mask_cache, bin_mask_cache,
                 day_range_cache, filter_cache, req, result, accum_1d, accumulated,
                 checkpoint_file, ts_store>>

\* _extract_spots_from_dataset: an exception is printed and the loop goes on
ExtractSpots ==
  /\ run.pc = "extract"
  /\ \E extracted \in BOOLEAN :
       run' = IF extracted THEN [run EXCEPT !.pc = "append"]
              ELSE [run EXCEPT !.pc = "cell", !.cell_idx = @ + 1]
  /\ UNCHANGED <<environment, cache_2d, threads, hist, spots, day_mask_cache, bin_mask_cache,
                 day_range_cache, filter_cache, req, result, accum_1d, accumulated,
                 checkpoint_file, ts_store>>

\* for spot_id, data in spot_data.items(): append_spot_data(...)
AppendCell ==
  /\ run.pc = "append"
  /\ ts_store' = AppendSpotData(ts_store, CellSpot(run.cell_idx), Period)
  /\ run' = [run EXCEPT !.pc = "mark"]
  /\ UNCHANGED <<environment, cache_2d, threads, hist, spots, day_mask_cache, bin_mask_cache,
                 day_range_cache, filter_cache, req, result, accum_1d, accumulated,
                 checkpoint_file>>

\* checkpoint.mark_cell_extracted(cell_idx); state = checkpoint.load()
MarkCellExtractedCall ==
  /\ run.pc = "mark"
  /\ run' = [run EXCEPT !.pc = "cell", !.cell_idx = @ + 1,
                        !.state = MarkCellExtracted(@, run.cell_idx)]
  /\ checkpoint_file' = run'.state
  /\ UNCHANGED <<environment, cache_2d, threads, hist, spots, day_mask_cache, bin_mask_cache,
                 day_range_cache, filter_cache, req, result, accum_1d, accumulated, ts_store>>

\* checkpoint.complete_period(); state = checkpoint.load()
CompletePeriodCall ==
  /\ run.pc = "complete"
  /\ run' = [NextPeriod EXCEPT !.state = CompletePeriod(@)]
  /\ checkpoint_file' = run'.state
  /\ UNCHANGED <<environment, cache_2d, threads, hist, spots, day_mask_cache, bin_mask_cache,
                 day_range_cache, filter_cache, req, result, accum_1d, accumulated, ts_store>>

\* The process is stopped between two steps; the files stay as they are.
Interrupt ==
  /\ Running
  /\ run' = [run EXCEPT !.pc = "stopped"]
  /\ UNCHANGED <<environment, cache_2d, threads, hist, spots, day_mask_cache, bin_mask_cache,
                 day_range_cache, filter_cache, req, result, accum_1d, accumulated,
                 checkpoint_file, ts_store>>

InitPhase1 ==
  /\ histFile = NoFile
  /\ sustFile = NoFile
  /\ hist2dDir = <<>>
  /\ argsort_ties = "ascending"
  /\ cache_2d = <<>>
  /\ threads = <<>>
  /\ hist = HistInit
  /\ spots = SpotsInit
  /\ day_mask_cache = <<>>
  /\ bin_mask_cache = <<>>
  /\ day_range_cache = <<>>
  /\ filter_cache = <<>>
  /\ req = [op |-> "run_phase1_arco"]
  /\ result = [op |-> "init"]
  /\ accum_1d = <<>>
  /\ accumulated = <<>>
  /\ checkpoint_file = <<>>
  /\ ts_store = [s \in {CellSpot(c) : c \in Cells} |-> <<>>]
  /\ run = [pc |-> "stopped", runs |-> 0, period_idx |-> 1, cell_idx |-> 0,
            state |-> CheckpointState]

NextPhase1 ==
  \/ StartRun
  \/ PeriodLoop
  \/ DownloadGlobalPeriod
  \/ StartPeriodCall
  \/ OpenDataset
  \/ CellLoop
  \/ ExtractSpots
  \/ AppendCell
  \/ MarkCellExtractedCall
  \/ CompletePeriodCall
  \/ Interrupt

SpecPhase1 == InitPhase1 /\ [][NextPhase1]_vars

\* ------------------------------------------------------------------------
\* Properties of the resumable phase 1
\* ------------------------------------------------------------------------
\* How many times the series of a period was appended to a spot's file.
TimesAppended(spot_id, period) == Len(SelectSeq(ts_store[spot_id], LAMBDA c : c = period))

\* C28: across any sequence of runs, interruptions and restarts that reload
\* the checkpoint, the time series of a cell for a period is appended to the
\* time-series store at most once.
C28_CellAppendedAtMostOncePerPeriod ==
  \A cell \in Cells : \A period \in Periods : TimesAppended(CellSpot(cell), period) <= 1

\* C29: a period is in the checkpoint's completed_periods only after the
\* time series of every cell with spots has been appended to the
\* time-series store for that period.
C29_CompletePeriodHasEveryCell ==
  checkpoint_file # <<>>
  => \A period \in Periods :
       InSeq(period, checkpoint_file.completed_periods)
       => \A cell \in Cells : TimesAppended(CellSpot(cell), period) >= 1

====
